---- MODULE Spec2Model ----
(***************************************************************************)
(* The batched shape-rendering engine of whirl: the GuiRenderer facade and *)
(* the three shape renderers it owns (QuadRenderer, RoundedQuadRenderer,   *)
(* CircleRenderer), each a Renderer<T> with a pending list of shapes.      *)
(*                                                                         *)
(* Floats are modelled by integers: every comparison and sum of the code   *)
(* (x < 0, w <= 0, w < radius * 2, x + w, x - radius) is exact on them.    *)
(* The GL context is modelled by the trace of calls the program issues to  *)
(* it.  The scratch vectors m_vertices / m_indices and m_count are written *)
(* by Configure before Draw reads them, so they are values of the Draw     *)
(* step and not part of the state between calls.                           *)
(***************************************************************************)
EXTENDS Integers, Sequences, FiniteSets, TLC

VARIABLES
    m_quads,        \* QuadRenderer::m_quads
    m_rquads,       \* RoundedQuadRenderer::m_quads
    m_circles,      \* CircleRenderer::m_circles
    m_projection,   \* GuiRenderer::m_projection
    gl,             \* GL calls issued by the most recent facade call
    log,            \* diagnostics (WHIRL_WARN) emitted by the most recent facade call
    calls           \* Draw* calls made by the application in the current frame

rendererVars == <<m_quads, m_rquads, m_circles, m_projection, gl, log, calls>>

\* The vertex layout helpers are free functions over an attribute list
VARIABLES
    attributes,     \* the std::vector<VertexAttribute> a layout was made of
    returned        \* the most recent call of a layout helper and what it returned

layoutVars == <<attributes, returned>>

\* A Shader object and the file it is made from
VARIABLES
    shaderFile,     \* the lines of the file at the path given to the shader
    m_program,      \* Shader::m_program, 0 when the object holds no program
    shaderGl,       \* GL calls issued by the most recent shader operation
    shaderResult    \* the most recent shader operation and how it ended

shaderVars == <<shaderFile, m_program, shaderGl, shaderResult>>

\* VertexBuffer / IndexBuffer objects and the GL buffer names they own
VARIABLES
    constructed,    \* the wrapper objects that are alive
    m_buffer,       \* m_buffer of each wrapper object (0 of an object not alive)
    glNames,        \* buffer names glGenBuffers has handed out: 1..glNames
    glDeleted       \* glDeleteBuffers calls made on each name

bufferVars == <<constructed, m_buffer, glNames, glDeleted>>

\* A color on its way from Color::New to the vertex shader
VARIABLES
    channels,       \* the r, g, b, a given to Color::New
    packed,         \* the uint32_t Color::New returned, <<>> before the call
    p_color         \* the four bytes the vertex shader extracted, <<>> before

colorVars == <<channels, packed, p_color>>

\* The Renderer of the revision with Open, Close and Flush
VARIABLES
    m_isOpen,       \* Renderer::m_isOpen
    m_quadList,     \* Renderer::m_quadList
    flushGl,        \* GL calls issued by the most recent call on this Renderer
    flushReturned,  \* the most recent call on this Renderer and what it returned
    m_openProjection \* Renderer::m_projection of this revision

openVars == <<m_isOpen, m_quadList, flushGl, flushReturned, m_openProjection>>

\* GuiApplication::Launch, statement by statement
VARIABLES
    pc,             \* where Launch is
    m_mode,         \* GuiApplication::m_mode: width and height
    m_window,       \* GuiApplication::m_window, 0 for nullptr
    launchCalls,    \* the GLFW, GL and renderer calls Launch has made so far
    frames          \* rounds of the loop made

appVars == <<pc, m_mode, m_window, launchCalls, frames>>

\* The Logger singleton
VARIABLES
    m_level,        \* Logger::m_level, as the int its enumerator is
    emitted,        \* what the most recent call wrote: <<level, stream>> each
    loggerCall      \* the most recent call

loggerVars == <<m_level, emitted, loggerCall>>

vars == <<rendererVars, layoutVars, shaderVars, bufferVars, colorVars,
          openVars, appVars, loggerVars>>

\* what each component leaves alone
notRenderer == <<layoutVars, shaderVars, bufferVars, colorVars,
                 openVars, appVars, loggerVars>>
notLayout == <<rendererVars, shaderVars, bufferVars, colorVars,
               openVars, appVars, loggerVars>>
notShader == <<rendererVars, layoutVars, bufferVars, colorVars,
               openVars, appVars, loggerVars>>
notBuffers == <<rendererVars, layoutVars, shaderVars, colorVars,
                openVars, appVars, loggerVars>>
notColor == <<rendererVars, layoutVars, shaderVars, bufferVars,
              openVars, appVars, loggerVars>>
notOpen == <<rendererVars, layoutVars, shaderVars, bufferVars, colorVars,
             appVars, loggerVars>>
notApp == <<rendererVars, layoutVars, shaderVars, bufferVars, colorVars,
            openVars, loggerVars>>
notLogger == <<rendererVars, layoutVars, shaderVars, bufferVars, colorVars,
               openVars, appVars>>

\* bool m_isOpen = false; nothing queued, nothing called
NoOpen ==
    /\ m_isOpen = FALSE
    /\ m_quadList = <<>>
    /\ flushGl = <<>>
    /\ flushReturned = [op |-> "none"]
    /\ m_openProjection = [indeterminate |-> 0]

\* Launch has not been called
NoApp ==
    /\ pc = "idle"
    /\ m_mode = <<0, 0>>
    /\ m_window = 0
    /\ launchCalls = <<>>
    /\ frames = 0

\* static Logger instance(Level::TRACE); nothing logged
NoLogger ==
    /\ m_level = 1
    /\ emitted = <<>>
    /\ loggerCall = <<"none">>

\* no color is being packed
NoColor ==
    /\ channels = <<>>
    /\ packed = <<>>
    /\ p_color = <<>>

\* no layout helper is in use
NoLayout ==
    /\ attributes = <<>>
    /\ returned = [fn |-> "none"]

MaxBuffers == 3

\* the two wrapper classes, and the objects of each the application holds
BufferClasses == {"VertexBuffer", "IndexBuffer"}
Wrappers == BufferClasses \X {"a", "b"}

\* no buffer wrapper has been constructed
NoBuffers ==
    /\ constructed = {}
    /\ m_buffer = [w \in Wrappers |-> 0]
    /\ glNames = 0
    /\ glDeleted = [n \in 1..MaxBuffers |-> 0]

\* no shader is being loaded
NoShader ==
    /\ shaderFile = <<>>
    /\ m_program = 0
    /\ shaderGl = <<>>
    /\ shaderResult = [op |-> "none"]

\* no GuiRenderer has been constructed
NoRenderer ==
    /\ m_quads = <<>>
    /\ m_rquads = <<>>
    /\ m_circles = <<>>
    /\ m_projection = [indeterminate |-> 0]
    /\ gl = <<>>
    /\ log = <<>>
    /\ calls = 0

----------------------------------------------------------------------------
(* Bounds and input sets *)

\* Draw* calls the application makes in one frame before it calls Submit
MaxCalls == 2

\* constexpr size_t BASE_SIZE = 16
BASE_SIZE == 16

\* arguments the application passes to the facade: every way a shape can be
\* invalid, the boundary values, and valid shapes that differ from each other
Colors == {7}
Quads ==
    {[x |-> 0, y |-> 2, w |-> w, h |-> h, color |-> c] :
        w \in {0, 2}, h \in {-1, 3}, c \in Colors}
    \cup {[x |-> p[1], y |-> p[2], w |-> 2, h |-> 3, color |-> c] :
        p \in {<<-1, 0>>, <<0, -1>>, <<1, 0>>}, c \in Colors}
Lines ==
    {[x |-> p[1], y |-> p[2], length |-> 3, thickness |-> t, color |-> c] :
        p \in {<<-1, 0>>, <<0, 2>>}, t \in {0, 2}, c \in Colors}
RoundedQuads ==
    {[x |-> 0, y |-> 2, w |-> s[1], h |-> s[2], radius |-> r, color |-> c] :
        s \in {<<0, 2>>, <<2, 0>>, <<2, 4>>, <<4, 2>>},
        r \in {-1, 0, 1, 2}, c \in Colors}
    \cup {[x |-> p[1], y |-> p[2], w |-> 2, h |-> 4, radius |-> 1, color |-> c] :
        p \in {<<-1, 0>>, <<0, -1>>}, c \in Colors}
Circles ==
    {[x |-> p[1], y |-> p[2], radius |-> 1, color |-> c] :
        p \in {<<-1, 0>>, <<0, -1>>, <<0, 2>>, <<1, 0>>}, c \in Colors}
    \cup {[x |-> 0, y |-> 2, radius |-> r, color |-> c] :
        r \in {-1, 0}, c \in Colors}
Widths == {0, 4}
Heights == {-1, 4, 6}

Kinds == {"quad", "rquad", "circle"}

----------------------------------------------------------------------------
(* Submit of each shape renderer: the new pending list and the warnings *)

\* Submit that lets a zero width or height through
QuadRenderer_Submit_ZeroSize(quads, quad) ==
    IF quad.x < 0 \/ quad.y < 0
    THEN [list |-> quads, log |-> <<"Invalid quad coordinates">>]
    ELSE IF quad.w < 0 \/ quad.h < 0
    THEN [list |-> quads, log |-> <<"Invalid quad dimensions">>]
    ELSE [list |-> Append(quads, quad), log |-> <<>>]

QuadRenderer_Submit(quads, quad) ==
    IF quad.x < 0 \/ quad.y < 0
    THEN [list |-> quads, log |-> <<"Invalid quad coordinates">>]
    ELSE IF quad.w <= 0 \/ quad.h <= 0
    THEN [list |-> quads, log |-> <<"Invalid quad dimensions">>]
    ELSE [list |-> Append(quads, quad), log |-> <<>>]

\* Submit that rejects a radius of exactly half a side
RoundedQuadRenderer_Submit_RejectsHalf(quads, quad) ==
    IF quad.x < 0 \/ quad.y < 0
    THEN [list |-> quads, log |-> <<"Invalid quad coordinates">>]
    ELSE IF quad.w <= 0 \/ quad.h <= 0
    THEN [list |-> quads, log |-> <<"Invalid quad dimensions">>]
    ELSE LET warned == IF quad.radius <= 0 THEN <<"Invalid quad radius">> ELSE <<>>
         IN  IF quad.w <= quad.radius * 2 \/ quad.h <= quad.radius * 2
             THEN [list |-> quads, log |-> warned \o <<"Radius is way too large for quad">>]
             ELSE [list |-> Append(quads, quad), log |-> warned]

\* the radius <= 0 branch warns and falls through: it has no return
RoundedQuadRenderer_Submit(quads, quad) ==
    IF quad.x < 0 \/ quad.y < 0
    THEN [list |-> quads, log |-> <<"Invalid quad coordinates">>]
    ELSE IF quad.w <= 0 \/ quad.h <= 0
    THEN [list |-> quads, log |-> <<"Invalid quad dimensions">>]
    ELSE LET warned == IF quad.radius <= 0 THEN <<"Invalid quad radius">> ELSE <<>>
         IN  IF quad.w < quad.radius * 2 \/ quad.h < quad.radius * 2
             THEN [list |-> quads, log |-> warned \o <<"Radius is way too large for quad">>]
             ELSE [list |-> Append(quads, quad), log |-> warned]

CircleRenderer_Submit(circles, circle) ==
    IF circle.radius <= 0
    THEN [list |-> circles, log |-> <<"Invalid circle radius">>]
    ELSE [list |-> Append(circles, circle), log |-> <<>>]

----------------------------------------------------------------------------
(* Configure of each shape renderer: the vertices and indices it builds,   *)
(* the buffer calls it issues and the m_count it leaves                    *)

\* indices of the first triangle only
ShapeIndices_OneTriangle(i) ==
    LET base == i * 4
    IN  <<base + 0, base + 1, base + 2>>

\* the winding without the shape's base index
ShapeIndices_NoBase(i) == <<0, 1, 2, 2, 3, 0>>

\* base + 0, base + 1, base + 2, base + 2, base + 3, base + 0 with base = i * 4
ShapeIndices(i) ==
    LET base == i * 4
    IN  <<base + 0, base + 1, base + 2, base + 2, base + 3, base + 0>>

\* vertexBuf.Bind(); vertexBuf.Data(...); indexBuf.Bind(); indexBuf.Data(...)
\* uploads that leave out the bind of the index buffer
Upload_NoIndexBind(kind, vertices, indices) ==
    << <<"BindVertexBuffer", kind>>, <<"VertexData", kind, vertices>>,
       <<"IndexData", kind, indices>> >>

Upload(kind, vertices, indices) ==
    << <<"BindVertexBuffer", kind>>, <<"VertexData", kind, vertices>>,
       <<"BindIndexBuffer", kind>>, <<"IndexData", kind, indices>> >>

\* the corners with the second and the fourth exchanged
QuadVertices_OtherWinding(quad) ==
    << [x |-> quad.x,          y |-> quad.y,          color |-> quad.color],
       [x |-> quad.x + quad.w, y |-> quad.y,          color |-> quad.color],
       [x |-> quad.x + quad.w, y |-> quad.y + quad.h, color |-> quad.color],
       [x |-> quad.x,          y |-> quad.y + quad.h, color |-> quad.color] >>

QuadVertices(quad) ==
    << [x |-> quad.x,          y |-> quad.y,          color |-> quad.color],
       [x |-> quad.x,          y |-> quad.y + quad.h, color |-> quad.color],
       [x |-> quad.x + quad.w, y |-> quad.y + quad.h, color |-> quad.color],
       [x |-> quad.x + quad.w, y |-> quad.y,          color |-> quad.color] >>

RECURSIVE QuadLoop(_, _, _, _)
QuadLoop(quads, i, vertices, indices) ==
    IF i < Len(quads)
    THEN QuadLoop(quads, i + 1, vertices \o QuadVertices(quads[i + 1]),
                  indices \o ShapeIndices(i))
    ELSE [vertices |-> vertices, indices |-> indices]

QuadRenderer_Configure(quads) ==
    LET built == QuadLoop(quads, 0, <<>>, <<>>)
    IN  [gl |-> Upload("quad", built.vertices, built.indices),
         m_count |-> Len(built.indices)]

RoundedQuadVertices(quad) ==
    << [x |-> quad.x, y |-> quad.y, w |-> quad.w, h |-> quad.h,
        u |-> 0, v |-> quad.h, radius |-> quad.radius, color |-> quad.color],
       [x |-> quad.x, y |-> quad.y + quad.h, w |-> quad.w, h |-> quad.h,
        u |-> 0, v |-> 0, radius |-> quad.radius, color |-> quad.color],
       [x |-> quad.x + quad.w, y |-> quad.y + quad.h, w |-> quad.w, h |-> quad.h,
        u |-> quad.w, v |-> 0, radius |-> quad.radius, color |-> quad.color],
       [x |-> quad.x + quad.w, y |-> quad.y, w |-> quad.w, h |-> quad.h,
        u |-> quad.w, v |-> quad.h, radius |-> quad.radius, color |-> quad.color] >>

\* a loop that stops one shape early
RECURSIVE RoundedQuadLoop_OffByOne(_, _, _, _)
RoundedQuadLoop_OffByOne(quads, i, vertices, indices) ==
    IF i < Len(quads) - 1
    THEN RoundedQuadLoop_OffByOne(quads, i + 1,
                                  vertices \o RoundedQuadVertices(quads[i + 1]),
                                  indices \o ShapeIndices(i))
    ELSE [vertices |-> vertices, indices |-> indices]

RECURSIVE RoundedQuadLoop(_, _, _, _)
RoundedQuadLoop(quads, i, vertices, indices) ==
    IF i < Len(quads)
    THEN RoundedQuadLoop(quads, i + 1, vertices \o RoundedQuadVertices(quads[i + 1]),
                         indices \o ShapeIndices(i))
    ELSE [vertices |-> vertices, indices |-> indices]

RoundedQuadRenderer_Configure(quads) ==
    LET built == RoundedQuadLoop(quads, 0, <<>>, <<>>)
    IN  [gl |-> Upload("rquad", built.vertices, built.indices),
         m_count |-> Len(built.indices)]

CircleVertices(circle) ==
    LET size == circle.radius * 2
        centerX == circle.radius
        centerY == circle.radius
    IN  << [x |-> circle.x - circle.radius, y |-> circle.y - circle.radius,
            w |-> centerX, h |-> centerY, u |-> 0, v |-> size,
            radius |-> circle.radius, color |-> circle.color],
           [x |-> circle.x - circle.radius, y |-> circle.y + circle.radius,
            w |-> centerX, h |-> centerY, u |-> 0, v |-> 0,
            radius |-> circle.radius, color |-> circle.color],
           [x |-> circle.x + circle.radius, y |-> circle.y + circle.radius,
            w |-> centerX, h |-> centerY, u |-> size, v |-> 0,
            radius |-> circle.radius, color |-> circle.color],
           [x |-> circle.x + circle.radius, y |-> circle.y - circle.radius,
            w |-> centerX, h |-> centerY, u |-> size, v |-> size,
            radius |-> circle.radius, color |-> circle.color] >>

\* the buffer uploads and the assignment of m_count are inside the for loop
RECURSIVE CircleLoop(_, _, _, _, _, _)
CircleLoop(circles, i, vertices, indices, issued, count) ==
    IF i < Len(circles)
    THEN LET vs == vertices \o CircleVertices(circles[i + 1])
             is == indices \o ShapeIndices(i)
         IN  CircleLoop(circles, i + 1, vs, is,
                        issued \o Upload("circle", vs, is), Len(is))
    ELSE [gl |-> issued, m_count |-> count]

\* m_count is 0 at construction and CanRender keeps an empty list out
CircleRenderer_Configure(circles) ==
    CircleLoop(circles, 0, <<>>, <<>>, <<>>, 0)

----------------------------------------------------------------------------
(* Draw of the shape renderers: the GL calls issued and the list left *)

\* QuadRenderer::Draw has its own body: if (m_quads.empty()) return; ... m_quads.clear()
QuadRenderer_Draw(quads, projection) ==
    IF quads = <<>>
    THEN [list |-> quads, gl |-> <<>>]
    ELSE LET configured == QuadRenderer_Configure(quads)
         IN  [list |-> <<>>,
              gl |-> << <<"BindVertexArray", "quad">> >>
                     \o configured.gl
                     \o << <<"UseProgram", "quad">>,
                           <<"SetMat4", "quad", "u_projection", projection>>,
                           <<"DrawElements", "quad", configured.m_count>>,
                           <<"UnbindVertexArray", "quad">>,
                           <<"UnbindVertexBuffer", "quad">>,
                           <<"UnbindIndexBuffer", "quad">> >>]

\* return !m_quads.empty();  return !m_circles.empty();
CanRender(shapes) == shapes # <<>>

\* Reset that leaves the list as it is
Reset_NoClear(shapes) == shapes

\* m_quads.clear();  m_circles.clear();
Reset(shapes) == <<>>

Configure(kind, shapes) ==
    IF kind = "rquad" THEN RoundedQuadRenderer_Configure(shapes)
                      ELSE CircleRenderer_Configure(shapes)

\* a Draw that binds the shader and uploads the projection before Configure
Renderer_Draw_ShaderFirst(kind, shapes, projection) ==
    IF CanRender(shapes)
    THEN LET configured == Configure(kind, shapes)
         IN  [list |-> Reset(shapes),
              gl |-> << <<"BindVertexArray", kind>>,
                        <<"UseProgram", kind>>,
                        <<"SetMat4", kind, "u_projection", projection>> >>
                     \o configured.gl
                     \o << <<"DrawElements", kind, configured.m_count>>,
                           <<"UnbindVertexArray", kind>>,
                           <<"UnbindVertexBuffer", kind>>,
                           <<"UnbindIndexBuffer", kind>> >>]
    ELSE [list |-> shapes, gl |-> <<>>]

\* Renderer<T>::Draw, inherited by RoundedQuadRenderer and CircleRenderer
Renderer_Draw(kind, shapes, projection) ==
    IF CanRender(shapes)
    THEN LET configured == Configure(kind, shapes)
         IN  [list |-> Reset(shapes),
              gl |-> << <<"BindVertexArray", kind>> >>
                     \o configured.gl
                     \o << <<"UseProgram", kind>>,
                           <<"SetMat4", kind, "u_projection", projection>>,
                           <<"DrawElements", kind, configured.m_count>>,
                           <<"UnbindVertexArray", kind>>,
                           <<"UnbindVertexBuffer", kind>>,
                           <<"UnbindIndexBuffer", kind>> >>]
    ELSE [list |-> shapes, gl |-> <<>>]

----------------------------------------------------------------------------
(* Construction *)

\* m_quads.resize(BASE_SIZE) holds BASE_SIZE value-initialized records
ValueInitializedRoundedQuad ==
    [x |-> 0, y |-> 0, w |-> 0, h |-> 0, radius |-> 0, color |-> 0]

\* m_circles.resize(BASE_SIZE) holds BASE_SIZE value-initialized records
ValueInitializedCircle ==
    [x |-> 0, y |-> 0, radius |-> 0, color |-> 0]

\* an orthographic projection whose Y axis points up
Ortho_YUp(left, right, bottom, top, near, far) ==
    [left |-> left, right |-> right, bottom |-> top, top |-> bottom,
     near |-> near, far |-> far]

\* glm::ortho(0, width, height, 0, -1, 1)
Ortho(left, right, bottom, top, near, far) ==
    [left |-> left, right |-> right, bottom |-> bottom, top |-> top,
     near |-> near, far |-> far]

\* glm::mat4 m_projection is default-constructed and not assigned by the
\* constructor: its value is indeterminate until the first accepted Adjust
IndeterminateMat4 == {[indeterminate |-> 0], [indeterminate |-> 1]}

Init ==
    /\ m_quads = <<>>
    /\ m_rquads = [i \in 1..BASE_SIZE |-> ValueInitializedRoundedQuad]
    /\ m_circles = [i \in 1..BASE_SIZE |-> ValueInitializedCircle]
    /\ m_projection \in IndeterminateMat4
    /\ gl = <<>>
    /\ log = <<>>
    /\ calls = 0
    /\ NoLayout
    /\ NoShader
    /\ NoBuffers
    /\ NoColor
    /\ NoOpen
    /\ NoApp
    /\ NoLogger

----------------------------------------------------------------------------
(* The facade's operations *)

GuiRenderer_DrawQuad(x, y, w, h, color) ==
    LET r == QuadRenderer_Submit(m_quads, [x |-> x, y |-> y, w |-> w, h |-> h,
                                           color |-> color])
    IN  /\ calls < MaxCalls
        /\ calls' = calls + 1
        /\ m_quads' = r.list
        /\ log' = r.log
        /\ gl' = <<>>
        /\ UNCHANGED <<m_rquads, m_circles, m_projection>>
        /\ UNCHANGED notRenderer

DrawQuad(x, y, w, h, color) == GuiRenderer_DrawQuad(x, y, w, h, color)

\* a vertical line submitted with the length as its width
DrawVLine_Unswapped(x, y, length, thickness, color) ==
    GuiRenderer_DrawQuad(x, y, length, thickness, color)

DrawVLine(x, y, length, thickness, color) ==
    GuiRenderer_DrawQuad(x, y, thickness, length, color)

DrawHLine(x, y, length, thickness, color) ==
    GuiRenderer_DrawQuad(x, y, length, thickness, color)

DrawRoundedQuad(x, y, w, h, radius, color) ==
    LET r == RoundedQuadRenderer_Submit(m_rquads,
                 [x |-> x, y |-> y, w |-> w, h |-> h, radius |-> radius,
                  color |-> color])
    IN  /\ calls < MaxCalls
        /\ calls' = calls + 1
        /\ m_rquads' = r.list
        /\ log' = r.log
        /\ gl' = <<>>
        /\ UNCHANGED <<m_quads, m_circles, m_projection>>
        /\ UNCHANGED notRenderer

\* a DrawCircle that also puts the default-constructed matrix back
DrawCircle_ResetsProjection(x, y, radius, color) ==
    LET r == CircleRenderer_Submit(m_circles,
                 [x |-> x, y |-> y, radius |-> radius, color |-> color])
    IN  /\ calls < MaxCalls
        /\ calls' = calls + 1
        /\ m_circles' = r.list
        /\ log' = r.log
        /\ gl' = <<>>
        /\ m_projection' = [indeterminate |-> 0]
        /\ UNCHANGED <<m_quads, m_rquads>>
        /\ UNCHANGED notRenderer

DrawCircle(x, y, radius, color) ==
    LET r == CircleRenderer_Submit(m_circles,
                 [x |-> x, y |-> y, radius |-> radius, color |-> color])
    IN  /\ calls < MaxCalls
        /\ calls' = calls + 1
        /\ m_circles' = r.list
        /\ log' = r.log
        /\ gl' = <<>>
        /\ UNCHANGED <<m_quads, m_rquads, m_projection>>
        /\ UNCHANGED notRenderer

\* the three Draw calls issued circles first
Submit_CirclesFirst ==
    LET q == QuadRenderer_Draw(m_quads, m_projection)
        r == Renderer_Draw("rquad", m_rquads, m_projection)
        c == Renderer_Draw("circle", m_circles, m_projection)
    IN  /\ calls' = 0
        /\ log' = <<>>
        /\ UNCHANGED m_projection
        /\ m_quads' = q.list
        /\ m_rquads' = r.list
        /\ m_circles' = c.list
        /\ gl' = c.gl \o r.gl \o q.gl
        /\ UNCHANGED notRenderer

Submit ==
    LET q == QuadRenderer_Draw(m_quads, m_projection)
        r == Renderer_Draw("rquad", m_rquads, m_projection)
        c == Renderer_Draw("circle", m_circles, m_projection)
    IN  /\ calls' = 0
        /\ log' = <<>>
        /\ UNCHANGED m_projection
        /\ m_quads' = q.list
        /\ m_rquads' = r.list
        /\ m_circles' = c.list
        /\ gl' = q.gl \o r.gl \o c.gl
        /\ UNCHANGED notRenderer

\* the projection rebuilt without looking at the viewport
Adjust_NoCheck(width, height) ==
    /\ log' = <<>>
    /\ m_projection' = Ortho(0, width, height, 0, -1, 1)
    /\ gl' = <<>>
    /\ UNCHANGED <<m_quads, m_rquads, m_circles, calls>>
    /\ UNCHANGED notRenderer

Adjust(width, height) ==
    /\ IF width <= 0 \/ height <= 0
       THEN /\ log' = <<"Invalid viewport data">>
            /\ UNCHANGED m_projection
       ELSE /\ log' = <<>>
            /\ m_projection' = Ortho(0, width, height, 0, -1, 1)
    /\ gl' = <<>>
    /\ UNCHANGED <<m_quads, m_rquads, m_circles, calls>>
    /\ UNCHANGED notRenderer

Next ==
    \/ \E q \in Quads : DrawQuad(q.x, q.y, q.w, q.h, q.color)
    \/ \E l \in Lines : DrawVLine(l.x, l.y, l.length, l.thickness, l.color)
    \/ \E l \in Lines : DrawHLine(l.x, l.y, l.length, l.thickness, l.color)
    \/ \E q \in RoundedQuads : DrawRoundedQuad(q.x, q.y, q.w, q.h, q.radius, q.color)
    \/ \E c \in Circles : DrawCircle(c.x, c.y, c.radius, c.color)
    \/ Submit
    \/ \E width \in Widths, height \in Heights : Adjust(width, height)

Spec == Init /\ [][Next]_vars

----------------------------------------------------------------------------
(* Reading the GL trace *)

\* the calls named name that the renderer of this kind issued
CallsOf(trace, name, kind) ==
    SelectSeq(trace, LAMBDA c : c[1] = name /\ c[2] = kind)

\* buffer uploads and draw calls of one kind
GpuWork(trace, kind) ==
    CallsOf(trace, "VertexData", kind) \o CallsOf(trace, "IndexData", kind)
        \o CallsOf(trace, "DrawElements", kind)

\* what the buffer holds when the draw call is issued: the last upload
BufferAtDraw(trace, name, kind) ==
    LET ups == CallsOf(trace, name, kind)
    IN  IF ups = <<>> THEN <<>> ELSE ups[Len(ups)][3]

\* the pending list of each kind
Pending(kind) ==
    IF kind = "quad" THEN m_quads
    ELSE IF kind = "rquad" THEN m_rquads
    ELSE m_circles

\* the GL calls a Draw of this kind would issue in the current state
DrawNow(kind) ==
    IF kind = "quad" THEN QuadRenderer_Draw(m_quads, m_projection).gl
    ELSE Renderer_Draw(kind, Pending(kind), m_projection).gl

----------------------------------------------------------------------------
(* C1: for every shape renderer, after Draw returns the pending list is    *)
(* empty, and a Draw issued right after it, with no Submit in between,     *)
(* uploads no buffer and issues no draw call.                              *)
C1_DrawEmptiesThenIdles ==
    [][Submit =>
        \A kind \in Kinds :
            /\ Pending(kind)' = <<>>
            /\ GpuWork(DrawNow(kind)', kind) = <<>>]_vars

\* a Draw of all three renderers has just uploaded and drawn, and emptied the lists
C1_Witness ==
    /\ \A kind \in Kinds : Len(CallsOf(gl, "DrawElements", kind)) = 1
    /\ \A kind \in Kinds : Pending(kind) = <<>>

----------------------------------------------------------------------------
(* C2: for every shape kind, when Draw runs with n shapes in the pending   *)
(* list, the vertex buffer holds 4*n vertices and the index buffer 6*n     *)
(* indices when the draw call is issued, and the draw call's index count   *)
(* (m_count) is 6*n.                                                       *)
C2_FourVerticesSixIndices ==
    [][Submit =>
        \A kind \in Kinds :
            LET n == Len(Pending(kind))
                draws == CallsOf(gl', "DrawElements", kind)
            IN  n > 0 =>
                    /\ Len(BufferAtDraw(gl', "VertexData", kind)) = 4 * n
                    /\ Len(BufferAtDraw(gl', "IndexData", kind)) = 6 * n
                    /\ Len(draws) = 1
                    /\ draws[1][3] = 6 * n]_vars

\* one frame drew 1 quad, BASE_SIZE + 1 rounded quads and BASE_SIZE circles
C2_Witness ==
    /\ CallsOf(gl, "DrawElements", "quad") = << <<"DrawElements", "quad", 6>> >>
    /\ Len(BufferAtDraw(gl, "VertexData", "rquad")) = 4 * (BASE_SIZE + 1)
    /\ Len(BufferAtDraw(gl, "IndexData", "circle")) = 6 * BASE_SIZE

----------------------------------------------------------------------------
(* Reading shapes back from the uploaded vertices: shape i is recovered    *)
(* from the four vertices 4*i+1 .. 4*i+4 of the buffer                     *)

ShapeFromVertices(kind, v) ==
    IF kind = "quad"
    THEN [x |-> v[1].x, y |-> v[1].y, w |-> v[3].x - v[1].x, h |-> v[3].y - v[1].y,
          color |-> v[1].color]
    ELSE IF kind = "rquad"
    THEN [x |-> v[1].x, y |-> v[1].y, w |-> v[3].x - v[1].x, h |-> v[3].y - v[1].y,
          radius |-> v[1].radius, color |-> v[1].color]
    ELSE [x |-> v[1].x + v[1].radius, y |-> v[1].y + v[1].radius,
          radius |-> v[1].radius, color |-> v[1].color]

ShapesDrawn(trace, kind) ==
    LET vertices == BufferAtDraw(trace, "VertexData", kind)
        count == IF CallsOf(trace, "DrawElements", kind) = <<>> THEN 0
                 ELSE CallsOf(trace, "DrawElements", kind)[1][3]
    IN  [i \in 1..(count \div 6) |->
            ShapeFromVertices(kind, SubSeq(vertices, 4 * i - 3, 4 * i))]

\* the list is what it was, or what it was with one more shape at the end
KeptOrAppended(before, after) ==
    \/ after = before
    \/ /\ Len(after) = Len(before) + 1
       /\ SubSeq(after, 1, Len(before)) = before

----------------------------------------------------------------------------
(* C3: across any interleaving of Submit and Draw on one shape renderer,   *)
(* every shape accepted by Submit is part of the geometry of exactly one   *)
(* Draw, the first after its submission, in submission order: a call that  *)
(* is not a Draw never drops or reorders a pending shape, and a Draw draws *)
(* exactly the pending shapes in list order and leaves none pending.       *)
C3_EachShapeDrawnOnce ==
    [][\A kind \in Kinds :
        IF Submit
        THEN /\ ShapesDrawn(gl', kind) = Pending(kind)
             /\ Pending(kind)' = <<>>
        ELSE /\ KeptOrAppended(Pending(kind), Pending(kind)')
             /\ GpuWork(gl', kind) = <<>>]_vars

\* a Draw has just drawn two different quads submitted in this frame
C3_Witness ==
    /\ Len(ShapesDrawn(gl, "quad")) = 2
    /\ ShapesDrawn(gl, "quad")[1] # ShapesDrawn(gl, "quad")[2]
    /\ m_quads = <<>>

----------------------------------------------------------------------------
(* The validation rule of each kind, as the specification states it:       *)
(* position non-negative, size and radius strictly positive, and a rounded *)
(* quad's radius at most half of either side                               *)

ValidQuad(q) == q.x >= 0 /\ q.y >= 0 /\ q.w > 0 /\ q.h > 0

ValidRoundedQuad(q) ==
    /\ q.x >= 0 /\ q.y >= 0 /\ q.w > 0 /\ q.h > 0
    /\ q.radius > 0 /\ 2 * q.radius <= q.w /\ 2 * q.radius <= q.h

ValidCircle(c) == c.x >= 0 /\ c.y >= 0 /\ c.radius > 0

ValidShape(kind, shape) ==
    IF kind = "quad" THEN ValidQuad(shape)
    ELSE IF kind = "rquad" THEN ValidRoundedQuad(shape)
    ELSE ValidCircle(shape)

----------------------------------------------------------------------------
(* C4: a shape renderer uploads or draws in Draw only if a valid shape was *)
(* submitted to it since its construction or its previous Draw: a Draw     *)
(* that follows no Draw* call of the frame is a no-op, and a Draw that     *)
(* does GPU work has a valid shape in its pending list.                    *)
C4_GpuWorkOnlyAfterValidSubmit ==
    [][Submit =>
        \A kind \in Kinds :
            GpuWork(gl', kind) # <<>> =>
                /\ calls > 0
                /\ \E i \in DOMAIN Pending(kind) : ValidShape(kind, Pending(kind)[i])]_vars

----------------------------------------------------------------------------
(* C5: for every shape kind, one Draw with a non-empty pending list issues *)
(* exactly one vertex-buffer upload, one index-buffer upload and one       *)
(* indexed draw call, however many shapes are pending.                     *)
C5_OneUploadOneDrawCall ==
    [][Submit =>
        \A kind \in Kinds :
            Pending(kind) # <<>> =>
                /\ Len(CallsOf(gl', "VertexData", kind)) = 1
                /\ Len(CallsOf(gl', "IndexData", kind)) = 1
                /\ Len(CallsOf(gl', "DrawElements", kind)) = 1]_vars

----------------------------------------------------------------------------
(* C6: submitting a quad with x<0 or y<0 or w<=0 or h<=0 to the quad       *)
(* renderer leaves its pending list unchanged; submitting a quad with      *)
(* x>=0, y>=0, w>0, h>0 appends exactly that quad at the end of the list.  *)
C6_QuadSubmitValidates ==
    [][\A q \in Quads :
        DrawQuad(q.x, q.y, q.w, q.h, q.color) =>
            IF q.x < 0 \/ q.y < 0 \/ q.w <= 0 \/ q.h <= 0
            THEN m_quads' = m_quads
            ELSE m_quads' = Append(m_quads, q)]_vars

\* a quad was accepted and the next one of the frame rejected for its size
C6_Witness ==
    /\ calls = 2
    /\ log = <<"Invalid quad dimensions">>
    /\ Len(m_quads) = 1
    /\ ValidQuad(m_quads[1])

----------------------------------------------------------------------------
(* C7: a rounded quad with radius > w/2 or radius > h/2 is rejected by     *)
(* Submit (pending list unchanged); a rounded quad with valid position and *)
(* size whose radius is positive and at most half of both sides, radius    *)
(* exactly w/2 or h/2 included, is appended.                               *)
C7_RoundedQuadRadiusRule ==
    [][\A q \in RoundedQuads :
        DrawRoundedQuad(q.x, q.y, q.w, q.h, q.radius, q.color) =>
            /\ (2 * q.radius > q.w \/ 2 * q.radius > q.h) => m_rquads' = m_rquads
            /\ ValidRoundedQuad(q) => m_rquads' = Append(m_rquads, q)]_vars

\* a rounded quad with radius exactly half its smaller side was accepted, and
\* the next one of the frame rejected for its radius
C7_Witness ==
    /\ calls = 2
    /\ log = <<"Radius is way too large for quad">>
    /\ m_rquads # <<>>
    /\ LET last == m_rquads[Len(m_rquads)]
       IN  /\ last.radius > 0
           /\ (2 * last.radius = last.w \/ 2 * last.radius = last.h)

----------------------------------------------------------------------------
(* C8: a rounded quad whose radius is zero or negative is rejected by      *)
(* Submit and is not appended to the pending list.                         *)
C8_NonPositiveRadiusRejected ==
    [][\A q \in RoundedQuads :
        (DrawRoundedQuad(q.x, q.y, q.w, q.h, q.radius, q.color) /\ q.radius <= 0)
            => m_rquads' = m_rquads]_vars

----------------------------------------------------------------------------
(* C9: a circle whose position has x<0 or y<0 is rejected by Submit and is *)
(* not appended to the circle renderer's pending list.                     *)
C9_CircleNegativePositionRejected ==
    [][\A c \in Circles :
        (DrawCircle(c.x, c.y, c.radius, c.color) /\ (c.x < 0 \/ c.y < 0))
            => m_circles' = m_circles]_vars

----------------------------------------------------------------------------
(* C10: a frame draws what the same frame without its invalid Draw* calls  *)
(* draws: an invalid Draw* call queues nothing and alters no pending shape *)
(* and no projection, so it leaves everything Submit reads as it was.      *)
C10_InvalidCallsChangeNothing ==
    [][/\ \A q \in Quads :
            (DrawQuad(q.x, q.y, q.w, q.h, q.color) /\ ~ValidQuad(q))
                => UNCHANGED <<m_quads, m_rquads, m_circles, m_projection>>
       /\ \A q \in RoundedQuads :
            (DrawRoundedQuad(q.x, q.y, q.w, q.h, q.radius, q.color) /\ ~ValidRoundedQuad(q))
                => UNCHANGED <<m_quads, m_rquads, m_circles, m_projection>>
       /\ \A c \in Circles :
            (DrawCircle(c.x, c.y, c.radius, c.color) /\ ~ValidCircle(c))
                => UNCHANGED <<m_quads, m_rquads, m_circles, m_projection>>]_vars

----------------------------------------------------------------------------
(* The order of a frame *)

\* the position of each renderer in GuiRenderer::Submit
DrawOrder(kind) ==
    IF kind = "quad" THEN 1 ELSE IF kind = "rquad" THEN 2 ELSE 3

\* the projections handed to the shaders by the calls of a trace
ProjectionsUsed(trace) ==
    {trace[i][4] : i \in {j \in DOMAIN trace : trace[j][1] = "SetMat4"}}

----------------------------------------------------------------------------
(* C11: GuiRenderer::Submit runs the Draw of the quad renderer, then of    *)
(* the rounded-quad renderer, then of the circle renderer: every GL call   *)
(* of a Submit comes in that order of renderers, each renderer with        *)
(* pending shapes issues its calls, and every projection uploaded is the   *)
(* facade's one m_projection.                                              *)
C11_QuadsThenRoundedThenCircles ==
    [][Submit =>
        /\ \A i \in 1..(Len(gl') - 1) :
               DrawOrder(gl'[i][2]) <= DrawOrder(gl'[i + 1][2])
        /\ gl' = DrawNow("quad") \o DrawNow("rquad") \o DrawNow("circle")
        /\ ProjectionsUsed(gl') \subseteq {m_projection}]_vars

\* a frame in which all three renderers drew, with a projection set by Adjust
C11_Witness ==
    /\ \A kind \in Kinds : CallsOf(gl, "SetMat4", kind) # <<>>
    /\ ProjectionsUsed(gl) = {Ortho(0, 4, 6, 0, -1, 1)}

----------------------------------------------------------------------------
(* C12: Adjust(width, height) with width <= 0 or height <= 0 leaves the    *)
(* stored projection exactly as it was (it logs a warning and returns),    *)
(* and a Submit uploads no projection other than the stored one, so the    *)
(* retained projection is the one later frames use.                        *)
C12_InvalidAdjustKeepsProjection ==
    [][/\ \A width \in Widths, height \in Heights :
              (Adjust(width, height) /\ (width <= 0 \/ height <= 0)) =>
                  /\ m_projection' = m_projection
                  /\ log' = <<"Invalid viewport data">>
       /\ Submit =>
              /\ m_projection' = m_projection
              /\ ProjectionsUsed(gl') \subseteq {m_projection}]_vars

\* an Adjust was just refused while a projection set by an earlier Adjust is stored
C12_Witness ==
    /\ log = <<"Invalid viewport data">>
    /\ m_projection = Ortho(0, 4, 6, 0, -1, 1)

----------------------------------------------------------------------------
(* The projection applied to a point *)

\* u_projection * vec4(a_position, 0.0, 1.0) for the matrix glm::ortho
\* builds: each clip coordinate as the fraction <<numerator, denominator>>
\*   x: 2/(right-left) * x - (right+left)/(right-left)
\*   y: 2/(top-bottom) * y - (top+bottom)/(top-bottom)
OrthoApply(m, x, y) ==
    [x |-> <<2 * x - (m.right + m.left), m.right - m.left>>,
     y |-> <<2 * y - (m.top + m.bottom), m.top - m.bottom>>]

\* the fraction f has the value of the fraction n / d
FractionIs(f, n, d) == f[2] # 0 /\ d # 0 /\ f[1] * d = n * f[2]

----------------------------------------------------------------------------
(* C13: after Adjust(w, h) with w > 0 and h > 0 the stored projection is   *)
(* the orthographic projection left = 0, right = w, bottom = h, top = 0:   *)
(* it maps (x, y) to (2x/w - 1, 1 - 2y/h), so (0, 0) goes to (-1, 1) and   *)
(* (w, h) to (1, -1).                                                      *)
C13_OrthoTopLeftOrigin ==
    [][\A w \in Widths, h \in Heights :
          (Adjust(w, h) /\ w > 0 /\ h > 0) =>
              /\ m_projection'.left = 0 /\ m_projection'.right = w
              /\ m_projection'.bottom = h /\ m_projection'.top = 0
              /\ \A x \in 0..w, y \in 0..h :
                     LET clip == OrthoApply(m_projection', x, y)
                     IN  /\ FractionIs(clip.x, 2 * x - w, w)
                         /\ FractionIs(clip.y, h - 2 * y, h)
              /\ FractionIs(OrthoApply(m_projection', 0, 0).x, -1, 1)
              /\ FractionIs(OrthoApply(m_projection', 0, 0).y, 1, 1)
              /\ FractionIs(OrthoApply(m_projection', w, h).x, 1, 1)
              /\ FractionIs(OrthoApply(m_projection', w, h).y, -1, 1)]_vars

\* Adjust(4, 4) was accepted: the centre of the viewport maps to the centre
\* of clip space and the bottom-left corner to (-1, -1)
C13_Witness ==
    /\ "indeterminate" \notin DOMAIN m_projection
    /\ m_projection.right = 4 /\ m_projection.bottom = 4
    /\ FractionIs(OrthoApply(m_projection, 2, 2).x, 0, 1)
    /\ FractionIs(OrthoApply(m_projection, 0, 4).y, -1, 1)

----------------------------------------------------------------------------
(* C14: DrawVLine(x, y, length, thickness, color) does what                *)
(* DrawQuad(x, y, thickness, length, color) does, and DrawHLine(x, y,      *)
(* length, thickness, color) what DrawQuad(x, y, length, thickness, color) *)
(* does: the quad of those dimensions is appended to the quad list when it *)
(* is valid and refused with the quad renderer's warning when not, and the *)
(* rounded-quad and circle lists are not touched.                          *)
C14_LinesAreQuads ==
    [][\A l \in Lines :
          LET v == [x |-> l.x, y |-> l.y, w |-> l.thickness, h |-> l.length,
                    color |-> l.color]
              h == [x |-> l.x, y |-> l.y, w |-> l.length, h |-> l.thickness,
                    color |-> l.color]
              AsQuad(q) ==
                  /\ m_quads' = IF ValidQuad(q) THEN Append(m_quads, q) ELSE m_quads
                  /\ log' = QuadRenderer_Submit(m_quads, q).log
                  /\ UNCHANGED <<m_rquads, m_circles, m_projection>>
          IN  /\ DrawVLine(l.x, l.y, l.length, l.thickness, l.color) => AsQuad(v)
              /\ DrawHLine(l.x, l.y, l.length, l.thickness, l.color) => AsQuad(h)]_vars

\* a horizontal line of length 3 and a vertical line of length 3, both of
\* thickness 2, are pending as quads
C14_Witness ==
    /\ Len(m_quads) = 2
    /\ m_quads[1].w = 3 /\ m_quads[1].h = 2
    /\ m_quads[2].w = 2 /\ m_quads[2].h = 3

----------------------------------------------------------------------------
(* The vertex layout helpers (VertexLayout.hpp)                            *)
(*                                                                         *)
(* An attribute is a record [size, format]; the list is 1-based here, so   *)
(* the code's attributes[i] is attributes[i + 1].  The sums stay far below *)
(* 2^31, so the int32_t / uint32_t accumulators never wrap.                *)

MaxAttributes == 3

\* enum class VertexFormat
VertexFormats == {"INT", "UINT", "FLOAT"}

\* struct VertexAttribute, with the component counts the renderers use
VertexAttributes == [size : 1..4, format : VertexFormats]

\* VertexLayout::New over every list of at most MaxAttributes attributes
AttributeLists ==
    UNION {[1..n -> VertexAttributes] : n \in 0..MaxAttributes}

\* the int index argument of GetOffset
Indices == (-2)..(MaxAttributes + 1)

\* for (const auto& attribute : attributes) stride += 4 * attribute.size
RECURSIVE StrideLoop(_, _, _)
StrideLoop(attrs, i, stride) ==
    IF i >= Len(attrs) THEN stride
    ELSE StrideLoop(attrs, i + 1, stride + 4 * attrs[i + 1].size)

GetStride(attrs) == StrideLoop(attrs, 0, 0)

\* index >= attributes.size() compares an int with a size_t: the int is
\* converted to size_t, so a negative index becomes index + 2^64, which is
\* above every possible size
IntNotBelowSize(index, size) == index < 0 \/ index >= size

\* a loop that also adds the attribute at index
RECURSIVE OffsetLoop_Inclusive(_, _, _, _, _)
OffsetLoop_Inclusive(attrs, i, index, offset, reads) ==
    IF ~(i <= index) THEN [value |-> offset, reads |-> reads]
    ELSE OffsetLoop_Inclusive(attrs, i + 1, index, offset + 4 * attrs[i + 1].size,
                              reads \cup {i})

\* for (int i = 0; i < index; i++) offset += 4 * attributes[i].size
\* reads is the set of positions of the vector the loop has read
RECURSIVE OffsetLoop(_, _, _, _, _)
OffsetLoop(attrs, i, index, offset, reads) ==
    IF ~(i < index) THEN [value |-> offset, reads |-> reads]
    ELSE OffsetLoop(attrs, i + 1, index, offset + 4 * attrs[i + 1].size,
                    reads \cup {i})

\* a GetOffset without the bounds test: it walks up to index whatever the size
GetOffset_NoCheck(attrs, index) ==
    [value |-> 4 * index, reads |-> 0..(index - 1), log |-> <<>>]

GetOffset(attrs, index) ==
    IF IntNotBelowSize(index, Len(attrs))
    THEN [value |-> 0, reads |-> {},
          log |-> <<"Tried to get offset of vertex attribute out of bounds">>]
    ELSE LET r == OffsetLoop(attrs, 0, index, 0, {})
         IN  [value |-> r.value, reads |-> r.reads, log |-> <<>>]

LayoutInit ==
    /\ attributes \in AttributeLists
    /\ returned = [fn |-> "none"]
    /\ NoRenderer
    /\ NoShader
    /\ NoBuffers
    /\ NoColor
    /\ NoOpen
    /\ NoApp
    /\ NoLogger

CallGetStride ==
    /\ returned' = [fn |-> "GetStride", value |-> GetStride(attributes)]
    /\ UNCHANGED attributes
    /\ UNCHANGED notLayout

CallGetOffset(index) ==
    LET r == GetOffset(attributes, index)
    IN  /\ returned' = [fn |-> "GetOffset", index |-> index, value |-> r.value,
                        reads |-> r.reads, log |-> r.log]
        /\ UNCHANGED attributes
        /\ UNCHANGED notLayout

\* a describe call in the float-pointer form whatever the format
DescribeAttribute_AlwaysFloat(layout, i) ==
    <<"VertexAttribPointer", i, layout[i + 1].size, layout[i + 1].format,
      GetStride(layout), GetOffset(layout, i).value>>

\* glVertexAttribPointer(i, size, type, GL_FALSE, stride, offset) for FLOAT,
\* glVertexAttribIPointer(i, size, type, stride, offset) otherwise; the type
\* is GetType(attribute.format) and is recorded as the format
DescribeAttribute(layout, i) ==
    IF layout[i + 1].format = "FLOAT"
    THEN <<"VertexAttribPointer", i, layout[i + 1].size, layout[i + 1].format,
           GetStride(layout), GetOffset(layout, i).value>>
    ELSE <<"VertexAttribIPointer", i, layout[i + 1].size, layout[i + 1].format,
           GetStride(layout), GetOffset(layout, i).value>>

\* for (int i = 0; i < layout.size(); i++) { describe; enable }
RECURSIVE AttributeLoop(_, _, _)
AttributeLoop(layout, i, issued) ==
    IF i < Len(layout)
    THEN AttributeLoop(layout, i + 1,
                       issued \o << DescribeAttribute(layout, i),
                                    <<"EnableVertexAttribArray", i>> >>)
    ELSE issued

\* VertexArray::VertexArray(vertexBuf, indexBuf, layout)
VertexArray_VertexArray ==
    /\ returned' = [fn |-> "VertexArray",
                    gl |-> << <<"GenVertexArrays">>, <<"BindVertexArray", 1>>,
                              <<"BindVertexBuffer">>, <<"BindIndexBuffer">> >>
                           \o AttributeLoop(attributes, 0, <<>>)
                           \o << <<"BindVertexArray", 0>>,
                                 <<"UnbindVertexBuffer">>, <<"UnbindIndexBuffer">> >>]
    /\ UNCHANGED attributes
    /\ UNCHANGED notLayout

\* VertexArray::Bind() of a constructed vertex array
VertexArray_Bind ==
    /\ returned.fn \in {"VertexArray", "Bind", "Unbind"}
    /\ returned' = [fn |-> "Bind", gl |-> << <<"BindVertexArray", 1>> >>]
    /\ UNCHANGED attributes
    /\ UNCHANGED notLayout

\* VertexArray::Unbind() of a constructed vertex array
VertexArray_Unbind ==
    /\ returned.fn \in {"VertexArray", "Bind", "Unbind"}
    /\ returned' = [fn |-> "Unbind", gl |-> << <<"BindVertexArray", 0>> >>]
    /\ UNCHANGED attributes
    /\ UNCHANGED notLayout

LayoutNext ==
    \/ CallGetStride
    \/ \E index \in Indices : CallGetOffset(index)
    \/ VertexArray_VertexArray
    \/ VertexArray_Bind
    \/ VertexArray_Unbind

SpecLayout == LayoutInit /\ [][LayoutNext]_vars

\* the bytes of the first n attributes: 4 bytes for each component
RECURSIVE BytesBefore(_, _)
BytesBefore(attrs, n) ==
    IF n = 0 THEN 0 ELSE BytesBefore(attrs, n - 1) + 4 * attrs[n].size

----------------------------------------------------------------------------
(* C15: for every attribute list (component counts 1..4), GetStride        *)
(* returns the sum of 4 * count over all attributes, and GetOffset(i) for  *)
(* 0 <= i < size returns the sum of 4 * count over the attributes before   *)
(* i: offset(0) = 0, each offset is larger than the one before it, and the *)
(* last offset plus the last attribute's bytes is the stride.              *)
C15_StrideAndOffsetsAreByteSums ==
    LET n == Len(attributes)
    IN  /\ returned.fn = "GetStride" => returned.value = BytesBefore(attributes, n)
        /\ (returned.fn = "GetOffset" /\ returned.index \in 0..(n - 1)) =>
               LET i == returned.index
               IN  /\ returned.value = BytesBefore(attributes, i)
                   /\ i = 0 => returned.value = 0
                   /\ i > 0 => returned.value > GetOffset(attributes, i - 1).value
                   /\ i = n - 1 =>
                          returned.value + 4 * attributes[n].size
                              = GetStride(attributes)

\* the offset of the last attribute of a 2, 1, 4 layout was asked for: 12 of 28 bytes
C15_Witness ==
    /\ Len(attributes) = 3
    /\ attributes[1].size = 2 /\ attributes[2].size = 1 /\ attributes[3].size = 4
    /\ returned.fn = "GetOffset" /\ returned.index = 2 /\ returned.value = 12

----------------------------------------------------------------------------
(* C16: GetOffset with an index that is out of range (index >= the number  *)
(* of attributes, or negative) returns the sentinel 0 with a diagnostic,   *)
(* and no call of GetOffset reads a position outside the list.             *)
C16_OutOfRangeOffsetIsZero ==
    returned.fn = "GetOffset" =>
        /\ returned.reads \subseteq 0..(Len(attributes) - 1)
        /\ (returned.index < 0 \/ returned.index >= Len(attributes)) =>
               /\ returned.value = 0
               /\ returned.reads = {}
               /\ returned.log # <<>>

\* index 2 of a two-attribute list, and a negative index, were asked for
C16_Witness ==
    /\ Len(attributes) = 2
    /\ returned.fn = "GetOffset"
    /\ returned.index \in {-1, 2}
    /\ returned.value = 0

----------------------------------------------------------------------------
(* The shader loader: Shader::Shader(path), which throws a WhirlError, and *)
(* the earlier Shader::Load(path), which logs and returns false.           *)
(*                                                                         *)
(* A line of the file is the sequence of its words, the empty line the     *)
(* empty sequence; std::string::find of a needle is the search for the     *)
(* needle's words as a contiguous run of the line's words.  An accumulated *)
(* source is the sequence of the lines appended to it.                     *)

MaxLines == 5

VertexTag == <<"#shader", "vertex">>
FragmentTag == <<"#shader", "fragment">>
GeometryTag == <<"#shader", "geometry">>
\* "#shader geometry // vertex": a tag of another kind on a line in which
\* the word vertex occurs further on
CommentedTag == <<"#shader", "geometry", "//", "vertex">>
BlankLine == <<>>
CodeLine == <<"void", "main()">>

ShaderLines ==
    {VertexTag, FragmentTag, GeometryTag, CommentedTag, BlankLine, CodeLine}

\* the files std::getline reads line by line
ShaderFiles == UNION {[1..n -> ShaderLines] : n \in 0..MaxLines}

\* what the driver makes of the sources handed to it
DriverOutcomes == {"ok", "vertex fails", "fragment fails", "link fails"}

\* line.find(needle) != std::string::npos
Find(line, needle) ==
    \E i \in 1..(Len(line) - Len(needle) + 1) :
        SubSeq(line, i, i + Len(needle) - 1) = needle

\* the scan from line i on; fragmentTwice is the message the revision gives
\* a fragment tag met while reading the fragment section
RECURSIVE ScanLoop(_, _, _, _, _, _, _)
ScanLoop(lines, i, readingVertex, readingFragment, vShaderCode, fShaderCode, fragmentTwice) ==
    LET line == lines[i]
        Continue(rv, rf, v, f) == ScanLoop(lines, i + 1, rv, rf, v, f, fragmentTwice)
        Fail(message) == [error |-> message, vShaderCode |-> vShaderCode,
                          fShaderCode |-> fShaderCode]
    IN  IF i > Len(lines)
        THEN [error |-> "", vShaderCode |-> vShaderCode, fShaderCode |-> fShaderCode]
        ELSE IF /\ Find(line, <<"#shader">>)
                /\ ~Find(line, <<"vertex">>)
                /\ ~Find(line, <<"fragment">>)
        THEN Fail("Unknown shader tag")
        ELSE IF Find(line, <<"#shader", "vertex">>)
        THEN IF readingFragment
             THEN Continue(TRUE, FALSE, vShaderCode, fShaderCode)
             ELSE IF readingVertex
             THEN Fail("Unexpected shader tag")
             ELSE Continue(TRUE, readingFragment, vShaderCode, fShaderCode)
        ELSE IF Find(line, <<"#shader", "fragment">>)
        THEN IF readingVertex
             THEN Continue(FALSE, TRUE, vShaderCode, fShaderCode)
             ELSE IF readingFragment
             THEN Fail(fragmentTwice)
             ELSE Continue(readingVertex, TRUE, vShaderCode, fShaderCode)
        ELSE IF readingVertex
        THEN Continue(readingVertex, readingFragment,
                      IF line # <<>> THEN Append(vShaderCode, line) ELSE vShaderCode,
                      fShaderCode)
        ELSE IF readingFragment
        THEN Continue(readingVertex, readingFragment, vShaderCode,
                      IF line # <<>> THEN Append(fShaderCode, line) ELSE fShaderCode)
        ELSE Continue(readingVertex, readingFragment, vShaderCode, fShaderCode)

\* a test that lets one empty source through
MissingShaderCode_Both(vShaderCode, fShaderCode) ==
    vShaderCode = <<>> /\ fShaderCode = <<>>

\* vShaderCode.empty() || fShaderCode.empty()
MissingShaderCode(vShaderCode, fShaderCode) ==
    vShaderCode = <<>> \/ fShaderCode = <<>>

\* Compile(shader, source)
Compile(shader, source) ==
    << <<"ShaderSource", shader, source>>, <<"CompileShader", shader>> >>

\* glCreateProgram, glCreateShader twice, Compile twice and Link, up to the
\* first step the driver fails
CompileAndLink(vShaderCode, fShaderCode, driver) ==
    LET create == << <<"CreateProgram">>, <<"CreateShader", "vertex">>,
                     <<"CreateShader", "fragment">> >>
        link == << <<"AttachShader", "vertex">>, <<"AttachShader", "fragment">>,
                   <<"LinkProgram">> >>
        linked == << <<"ValidateProgram">>, <<"DeleteShader", "vertex">>,
                     <<"DeleteShader", "fragment">> >>
    IN  IF driver = "vertex fails"
        THEN [gl |-> create \o Compile("vertex", vShaderCode),
              error |-> "Failed to compile shader"]
        ELSE IF driver = "fragment fails"
        THEN [gl |-> create \o Compile("vertex", vShaderCode)
                        \o Compile("fragment", fShaderCode),
              error |-> "Failed to compile shader"]
        ELSE IF driver = "link fails"
        THEN [gl |-> create \o Compile("vertex", vShaderCode)
                        \o Compile("fragment", fShaderCode) \o link,
              error |-> "Failed to link shader program"]
        ELSE [gl |-> create \o Compile("vertex", vShaderCode)
                        \o Compile("fragment", fShaderCode) \o link \o linked,
              error |-> ""]

\* the whole of a load: open, scan, test the sources, compile and link
LoadShader(opens, driver, fragmentTwice, context) ==
    LET scan == ScanLoop(shaderFile, 1, FALSE, FALSE, <<>>, <<>>, fragmentTwice)
        built == CompileAndLink(scan.vShaderCode, scan.fShaderCode, driver)
    IN  IF ~opens
        THEN [gl |-> <<>>, error |-> "Failed to open shader file", context |-> <<>>]
        ELSE IF scan.error # ""
        THEN [gl |-> <<>>, error |-> scan.error, context |-> <<>>]
        ELSE IF MissingShaderCode(scan.vShaderCode, scan.fShaderCode)
        THEN [gl |-> <<>>, error |-> "Missing shader code", context |-> <<>>]
        ELSE [gl |-> built.gl, error |-> built.error,
              context |-> IF built.error = "" THEN <<>> ELSE context]

ShaderInit ==
    /\ shaderFile \in ShaderFiles
    /\ m_program = 0
    /\ shaderGl = <<>>
    /\ shaderResult = [op |-> "none"]
    /\ NoRenderer
    /\ NoLayout
    /\ NoBuffers
    /\ NoColor
    /\ NoOpen
    /\ NoApp
    /\ NoLogger

\* Shader::Shader(path): a failure is thrown, and then there is no object;
\* a constructor is the first operation on its object
Shader_Shader(opens, driver) ==
    /\ shaderResult.op = "none"
    /\ \E r \in {LoadShader(opens, driver, "Unknown shader tag",
                             <<"Failed to construct shader">>)} :
        /\ shaderResult' = [op |-> "Shader", ok |-> r.error = "",
                            error |-> r.error, context |-> r.context]
        /\ shaderGl' = r.gl
        /\ m_program' = IF r.error = "" THEN 1 ELSE 0
        /\ UNCHANGED shaderFile
        /\ UNCHANGED notShader

\* Shader::Load(path) of the revision whose shader is default-constructed
\* and then loaded, any number of times: a failure is logged and false is
\* returned; m_program is assigned as soon as the program is created
Shader_Load(opens, driver) ==
    /\ shaderResult.op \in {"none", "Load"}
    /\ \E r \in {LoadShader(opens, driver, "Unexpected shader tag", <<>>)} :
        /\ shaderResult' = [op |-> "Load", ok |-> r.error = "",
                            error |-> r.error, context |-> r.context]
        /\ shaderGl' = r.gl
        /\ m_program' = IF r.gl # <<>> THEN 1 ELSE m_program
        /\ UNCHANGED shaderFile
        /\ UNCHANGED notShader

\* WhirlError(message): m_context.reserve(4); m_context.push_back(message);
WhirlError(message) == <<message>>

\* a Context that puts the line in front of the trail
WhirlError_Context_Prepends(m_context, error) == <<error>> \o m_context

\* WhirlError::Context(error): m_context.push_back(error);
WhirlError_Context(m_context, error) == Append(m_context, error)

\* WhirlError::Get(): a copy of m_context
WhirlError_Get(m_context) == m_context

\* WhirlError::what(): m_context[0] if there is one, "Whirl Error" otherwise
WhirlError_what(m_context) ==
    IF Len(m_context) > 0 THEN m_context[1] ELSE "Whirl Error"

\* what Shader::Shader throws for a failed load: the WhirlError of the
\* failing step, with Context("Failed to construct shader") added by the
\* catch around Compile, Compile, Link
Shader_Throws(r) ==
    IF r.context = <<>>
    THEN WhirlError(r.error)
    ELSE WhirlError_Context(WhirlError(r.error), "Failed to construct shader")

\* Renderer<T>::Renderer: catch (WhirlError& error) around the construction
\* of the vertex array and the shader
Renderer_Rethrows(error) ==
    WhirlError_Context(error, "Failed to load renderer resources")

\* GuiRenderer::GuiRenderer(): the first shape renderer whose shader is read
\* from shaderFile; a WhirlError of its construction gets one more line of
\* context and is thrown on to the caller, who reads what() and Get()
GuiRenderer_GuiRenderer(opens, driver) ==
    /\ shaderResult.op = "none"
    /\ \E r \in {LoadShader(opens, driver, "Unknown shader tag",
                             <<"Failed to construct shader">>)} :
        /\ shaderResult' =
               IF r.error = ""
               THEN [op |-> "GuiRenderer", ok |-> TRUE, error |-> "",
                     context |-> <<>>]
               ELSE LET caught == WhirlError_Context(
                                      Renderer_Rethrows(Shader_Throws(r)),
                                      "Failed to create quad renderer")
                    IN  [op |-> "GuiRenderer", ok |-> FALSE,
                         error |-> WhirlError_what(caught),
                         context |-> Tail(WhirlError_Get(caught))]
        /\ shaderGl' = r.gl
        /\ m_program' = IF r.error = "" THEN 1 ELSE 0
        /\ UNCHANGED shaderFile
        /\ UNCHANGED notShader

\* what glGetUniformLocation can answer: -1 for a name that is no active
\* uniform of the program, a location otherwise
Locations == {-1, 0, 3}

\* the uniform the renderers set
UniformNames == {"u_projection"}

\* a setter that uploads without looking at the location
SetUniform_NoCheck(upload, name, value, location) ==
    [ok |-> location # -1,
     error |-> IF location = -1
               THEN "Tried uploading a uniform to an unknown variable" ELSE "",
     gl |-> << <<"GetUniformLocation", name>>, <<upload, location, value>> >>]

\* the body the five setters share: int location =
\* glGetUniformLocation(m_program, name.c_str()); if (location == -1)
\* { WHIRL_ERROR(...); return false; }  glUniform...(location, value);
\* return true;
SetUniform(upload, name, value, location) ==
    IF location = -1
    THEN [ok |-> FALSE,
          error |-> "Tried uploading a uniform to an unknown variable",
          gl |-> << <<"GetUniformLocation", name>> >>]
    ELSE [ok |-> TRUE, error |-> "",
          gl |-> << <<"GetUniformLocation", name>>, <<upload, location, value>> >>]

\* a setter called on a shader that holds a program; what it returns and
\* logs is the result, nothing is thrown and m_program is not assigned
Shader_Set(setter, r) ==
    /\ m_program # 0
    /\ shaderResult' = [op |-> setter, ok |-> r.ok, error |-> r.error,
                        context |-> <<>>]
    /\ shaderGl' = r.gl
    /\ UNCHANGED <<shaderFile, m_program>>
    /\ UNCHANGED notShader

\* bool Shader::SetBool(const std::string& name, bool value)
Shader_SetBool(name, value, location) ==
    Shader_Set("SetBool", SetUniform("Uniform1i", name, value, location))

\* bool Shader::SetInt(const std::string& name, int value)
Shader_SetInt(name, value, location) ==
    Shader_Set("SetInt", SetUniform("Uniform1i", name, value, location))

\* bool Shader::SetUInt(const std::string& name, unsigned int value)
Shader_SetUInt(name, value, location) ==
    Shader_Set("SetUInt", SetUniform("Uniform1ui", name, value, location))

\* bool Shader::SetFloat(const std::string& name, float value)
Shader_SetFloat(name, value, location) ==
    Shader_Set("SetFloat", SetUniform("Uniform1f", name, value, location))

\* bool Shader::SetMat4(const std::string& name, const glm::mat4& matrix)
Shader_SetMat4(name, matrix, location) ==
    Shader_Set("SetMat4", SetUniform("UniformMatrix4fv", name, matrix, location))

ShaderNext ==
    \/ \E opens \in BOOLEAN, driver \in DriverOutcomes : Shader_Shader(opens, driver)
    \/ \E opens \in BOOLEAN, driver \in DriverOutcomes : Shader_Load(opens, driver)
    \/ \E opens \in BOOLEAN, driver \in DriverOutcomes :
           GuiRenderer_GuiRenderer(opens, driver)
    \/ \E name \in UniformNames, location \in Locations :
           Shader_SetBool(name, 1, location)
    \/ \E name \in UniformNames, location \in Locations :
           Shader_SetInt(name, -2, location)
    \/ \E name \in UniformNames, location \in Locations :
           Shader_SetUInt(name, 7, location)
    \/ \E name \in UniformNames, location \in Locations :
           Shader_SetFloat(name, 5, location)
    \/ \E name \in UniformNames, location \in Locations :
           Shader_SetMat4(name, Ortho(0, 4, 4, 0, -1, 1), location)

SpecShader == ShaderInit /\ [][ShaderNext]_vars

----------------------------------------------------------------------------
(* Reading a shader file as the format describes it *)

\* the tag lines of a file, in file order
TagsOf(file) == SelectSeq(file, LAMBDA line : Len(line) > 0 /\ line[1] = "#shader")

\* the file was opened and scanned by the most recent operation
Scanned ==
    /\ shaderResult.op \in {"Shader", "Load", "GuiRenderer"}
    /\ shaderResult.error # "Failed to open shader file"

\* the first tag that is not vertex or fragment, or that repeats the tag
\* before it; 0 when there is none
FirstBadTag(tags) ==
    LET bad == {j \in DOMAIN tags :
                   \/ tags[j] \notin {VertexTag, FragmentTag}
                   \/ j > 1 /\ tags[j] = tags[j - 1]}
    IN  IF bad = {} THEN 0 ELSE CHOOSE j \in bad : \A k \in bad : j <= k

\* the lines of a file that open a section, in file order
SwitchesOf(file) == SelectSeq(file, LAMBDA line : line \in {VertexTag, FragmentTag})

\* the lines of the section opened by the j-th vertex or fragment tag of the
\* file: those up to the next such tag
SectionLines(file, j) ==
    LET at == {i \in DOMAIN file : file[i] \in {VertexTag, FragmentTag}}
        start == CHOOSE i \in at : Cardinality({k \in at : k <= i}) = j
        after == {k \in at : k > start}
        stop == IF after = {} THEN Len(file) + 1
                ELSE CHOOSE k \in after : \A m \in after : k <= m
    IN  SubSeq(file, start + 1, stop - 1)

----------------------------------------------------------------------------
(* C17: a file in which a vertex tag is met while the vertex section is    *)
(* being read, or a fragment tag while the fragment section is being read, *)
(* fails to load with the unexpected-tag error, which is not the           *)
(* unknown-tag error.                                                      *)
C17_DuplicateTagIsUnexpected ==
    LET tags == TagsOf(shaderFile)
        j == FirstBadTag(tags)
    IN  (Scanned /\ j > 0 /\ tags[j] \in {VertexTag, FragmentTag}) =>
            /\ ~shaderResult.ok
            /\ shaderResult.error = "Unexpected shader tag"
            /\ shaderResult.error # "Unknown shader tag"

----------------------------------------------------------------------------
(* C18: the GL program and shader objects are created, and the sources     *)
(* compiled, only if both accumulated sources are non-empty; a file with   *)
(* one section only, or with a vertex and a fragment section of which one  *)
(* holds nothing but blank lines, fails with the missing-shader-code error *)
(* and issues no GL call.                                                  *)
C18_BothSourcesOrNoGpuObject ==
    LET tags == SwitchesOf(shaderFile)
        OneSection == Len(tags) = 1 /\ TagsOf(shaderFile) = tags
        BlankSection ==
            /\ tags \in {<<VertexTag, FragmentTag>>, <<FragmentTag, VertexTag>>}
            /\ TagsOf(shaderFile) = tags
            /\ \E j \in 1..2 :
                   \A i \in DOMAIN SectionLines(shaderFile, j) :
                       SectionLines(shaderFile, j)[i] = BlankLine
    IN  /\ \A i \in DOMAIN shaderGl :
               shaderGl[i][1] = "ShaderSource" => shaderGl[i][3] # <<>>
        /\ shaderGl # <<>> =>
               \A tag \in {VertexTag, FragmentTag} :
                   \E j \in DOMAIN tags :
                       /\ tags[j] = tag
                       /\ \E i \in DOMAIN SectionLines(shaderFile, j) :
                              SectionLines(shaderFile, j)[i] # BlankLine
        /\ (Scanned /\ (OneSection \/ BlankSection)) =>
               /\ shaderResult.error = "Missing shader code"
               /\ shaderGl = <<>>

\* a file with a vertex section of code and a fragment section of one blank
\* line was refused for missing code
C18_Witness ==
    /\ shaderFile = <<VertexTag, CodeLine, FragmentTag, BlankLine>>
    /\ shaderResult.op = "Shader"
    /\ shaderResult.error = "Missing shader code"
    /\ shaderGl = <<>>

----------------------------------------------------------------------------
(* C19: a file is accepted by the parser (its sources reach the compiler)  *)
(* only if its tags are one vertex tag and one fragment tag, in either     *)
(* order; vertex, fragment, vertex is refused.                             *)
C19_ExactlyTwoSections ==
    (Scanned /\ shaderGl # <<>>) =>
        TagsOf(shaderFile) \in {<<VertexTag, FragmentTag>>, <<FragmentTag, VertexTag>>}

----------------------------------------------------------------------------
(* The buffer wrappers: VertexBuffer and IndexBuffer have the same         *)
(* constructor, destructor, move constructor and move assignment.          *)

\* VertexBuffer::VertexBuffer() / IndexBuffer::IndexBuffer()
Buffer_Construct(w) ==
    /\ w \notin constructed
    /\ glNames < MaxBuffers
    /\ glNames' = glNames + 1
    /\ m_buffer' = [m_buffer EXCEPT ![w] = glNames + 1]
    /\ constructed' = constructed \cup {w}
    /\ UNCHANGED glDeleted
    /\ UNCHANGED notBuffers

\* ~VertexBuffer() / ~IndexBuffer()
Buffer_Destroy(w) ==
    /\ w \in constructed
    /\ glDeleted' = IF m_buffer[w] # 0
                    THEN [glDeleted EXCEPT ![m_buffer[w]] = @ + 1]
                    ELSE glDeleted
    /\ constructed' = constructed \ {w}
    /\ m_buffer' = [m_buffer EXCEPT ![w] = 0]
    /\ UNCHANGED glNames
    /\ UNCHANGED notBuffers

\* a move constructor that copies the name and leaves the source as it was
Buffer_MoveConstruct_KeepsSource(w, other) ==
    /\ w \notin constructed
    /\ other \in constructed
    /\ w[1] = other[1]
    /\ m_buffer' = [m_buffer EXCEPT ![w] = m_buffer[other]]
    /\ constructed' = constructed \cup {w}
    /\ UNCHANGED <<glNames, glDeleted>>
    /\ UNCHANGED notBuffers

\* VertexBuffer(VertexBuffer&& other) / IndexBuffer(IndexBuffer&& other)
Buffer_MoveConstruct(w, other) ==
    /\ w \notin constructed
    /\ other \in constructed
    /\ w[1] = other[1]
    /\ m_buffer' = [m_buffer EXCEPT ![w] = m_buffer[other], ![other] = 0]
    /\ constructed' = constructed \cup {w}
    /\ UNCHANGED <<glNames, glDeleted>>
    /\ UNCHANGED notBuffers

\* operator=(VertexBuffer&& other) / operator=(IndexBuffer&& other)
Buffer_MoveAssign(w, other) ==
    /\ w \in constructed
    /\ other \in constructed
    /\ w[1] = other[1]
    /\ m_buffer' = IF w # other
                   THEN [m_buffer EXCEPT ![w] = m_buffer[other], ![other] = 0]
                   ELSE m_buffer
    /\ UNCHANGED <<constructed, glNames, glDeleted>>
    /\ UNCHANGED notBuffers

BuffersInit ==
    /\ NoBuffers
    /\ NoColor
    /\ NoOpen
    /\ NoApp
    /\ NoLogger
    /\ NoRenderer
    /\ NoLayout
    /\ NoShader

BuffersNext ==
    \/ \E w \in Wrappers : Buffer_Construct(w)
    \/ \E w \in Wrappers : Buffer_Destroy(w)
    \/ \E w, other \in Wrappers : Buffer_MoveConstruct(w, other)
    \/ \E w, other \in Wrappers : Buffer_MoveAssign(w, other)

SpecBuffers == BuffersInit /\ [][BuffersNext]_vars

----------------------------------------------------------------------------
(* C20: whatever the wrappers were put through, no GL buffer name is       *)
(* deleted twice, and once every wrapper is destroyed each name            *)
(* glGenBuffers handed out has been deleted exactly once.                  *)
C20_EveryHandleDeletedOnce ==
    /\ \A n \in 1..glNames : glDeleted[n] <= 1
    /\ constructed = {} => \A n \in 1..glNames : glDeleted[n] = 1

----------------------------------------------------------------------------
(* More on the facade and the shape renderers *)

\* position of the first call named name in a trace, 0 when there is none
FirstCall(trace, name) ==
    LET at == {i \in DOMAIN trace : trace[i][1] = name}
    IN  IF at = {} THEN 0 ELSE CHOOSE i \in at : \A j \in at : i <= j

\* position of the last call named name in a trace, 0 when there is none
LastCall(trace, name) ==
    LET at == {i \in DOMAIN trace : trace[i][1] = name}
    IN  IF at = {} THEN 0 ELSE CHOOSE i \in at : \A j \in at : i >= j

\* the shapes the application can hand to the renderer of a kind
Submittable(kind) ==
    IF kind = "quad"
    THEN Quads
         \cup {[x |-> l.x, y |-> l.y, w |-> l.thickness, h |-> l.length,
                color |-> l.color] : l \in Lines}
         \cup {[x |-> l.x, y |-> l.y, w |-> l.length, h |-> l.thickness,
                color |-> l.color] : l \in Lines}
    ELSE IF kind = "rquad" THEN RoundedQuads
    ELSE Circles

----------------------------------------------------------------------------
(* C23: for every shape kind, the six indices uploaded for the shape at    *)
(* position i (0-based) of the pending list are 4i, 4i+1, 4i+2, 4i+2,      *)
(* 4i+3, 4i in that order, so every index of shape i lies in 4i .. 4i+3    *)
(* and every index is smaller than the number of vertices uploaded.        *)
C23_IndicesFollowTheWinding ==
    [][Submit =>
        \A kind \in Kinds :
            \A n \in {Len(Pending(kind))} :
            \A indices \in {BufferAtDraw(gl', "IndexData", kind)} :
            \A vertices \in {Len(BufferAtDraw(gl', "VertexData", kind))} :
                n > 0 =>
                    /\ Len(indices) = 6 * n
                    /\ \A i \in 0..(n - 1) :
                           /\ SubSeq(indices, 6 * i + 1, 6 * i + 6)
                                  = <<4 * i, 4 * i + 1, 4 * i + 2,
                                      4 * i + 2, 4 * i + 3, 4 * i>>
                           /\ \A k \in (6 * i + 1)..(6 * i + 6) :
                                  indices[k] \in (4 * i)..(4 * i + 3)
                    /\ \A k \in DOMAIN indices : indices[k] < vertices]_vars

\* a frame drew two quads: the second quad's indices start at 4
C23_Witness ==
    /\ Len(BufferAtDraw(gl, "IndexData", "quad")) = 12
    /\ SubSeq(BufferAtDraw(gl, "IndexData", "quad"), 7, 12) = <<4, 5, 6, 6, 7, 4>>

----------------------------------------------------------------------------
(* C24: in every reachable state, every record of every pending list is a  *)
(* shape the application submitted and satisfies its kind's validation     *)
(* rule (non-negative position, strictly positive size and radius).        *)
C24_PendingShapesWereSubmittedAndValid ==
    \A kind \in Kinds :
        \A i \in DOMAIN Pending(kind) :
            /\ Pending(kind)[i] \in Submittable(kind)
            /\ ValidShape(kind, Pending(kind)[i])

----------------------------------------------------------------------------
(* C25: in a Draw with a non-empty pending list the vertex array is bound  *)
(* first, then the vertex and index buffers are uploaded, then the shader  *)
(* is bound, then the projection is uploaded, then the one indexed draw    *)
(* call is issued, then the vertex array and the buffers are unbound; the  *)
(* list is cleared after all of that: the geometry uploaded is that of the *)
(* whole list and the list is empty when Draw returns.                     *)
C25_StepsOfADrawInOrder ==
    [][Submit =>
        \A kind \in Kinds :
            \A trace \in {SelectSeq(gl', LAMBDA c : c[2] = kind)} :
            \A n \in {Len(Pending(kind))} :
                n > 0 =>
                    /\ trace[1][1] = "BindVertexArray"
                    /\ 1 < FirstCall(trace, "VertexData")
                    /\ 1 < FirstCall(trace, "IndexData")
                    /\ LastCall(trace, "VertexData") < FirstCall(trace, "UseProgram")
                    /\ LastCall(trace, "IndexData") < FirstCall(trace, "UseProgram")
                    /\ FirstCall(trace, "UseProgram") < FirstCall(trace, "SetMat4")
                    /\ LastCall(trace, "SetMat4") < FirstCall(trace, "DrawElements")
                    /\ FirstCall(trace, "DrawElements") = LastCall(trace, "DrawElements")
                    /\ LastCall(trace, "DrawElements") < FirstCall(trace, "UnbindVertexArray")
                    /\ FirstCall(trace, "UnbindVertexArray")
                           < FirstCall(trace, "UnbindVertexBuffer")
                    /\ FirstCall(trace, "UnbindVertexBuffer")
                           < FirstCall(trace, "UnbindIndexBuffer")
                    /\ FirstCall(trace, "UnbindIndexBuffer") = Len(trace)
                    /\ Len(BufferAtDraw(trace, "VertexData", kind)) = 4 * n
                    /\ Pending(kind)' = <<>>]_vars

\* a frame in which the rounded-quad renderer alone had work: its twelve
\* calls from the bind of the vertex array to the unbind of the index buffer
C25_Witness ==
    /\ Len(gl) = 11
    /\ gl[1] = <<"BindVertexArray", "rquad">>
    /\ gl[6][1] = "UseProgram"
    /\ gl[8][1] = "DrawElements"
    /\ gl[11] = <<"UnbindIndexBuffer", "rquad">>
    /\ m_rquads = <<>>

----------------------------------------------------------------------------
(* C26: m_projection changes only in an Adjust with width > 0 and          *)
(* height > 0: DrawQuad, DrawVLine, DrawHLine, DrawRoundedQuad, DrawCircle *)
(* and Submit leave it as it is, and the Draw of every renderer hands the  *)
(* shader the projection it was given and leaves the facade's copy alone.  *)
C26_OnlyAdjustChangesProjection ==
    [][/\ m_projection' # m_projection =>
              \E width \in Widths, height \in Heights :
                  width > 0 /\ height > 0 /\ Adjust(width, height)
       /\ Submit => /\ ProjectionsUsed(gl') \subseteq {m_projection}
                    /\ m_projection' = m_projection]_vars

\* an accepted Adjust set the projection, and a circle was then queued
\* without touching it
C26_Witness ==
    /\ m_projection = Ortho(0, 4, 4, 0, -1, 1)
    /\ Len(m_circles) = 1
    /\ calls = 1

----------------------------------------------------------------------------
(* C29: move construction, and move assignment between two distinct        *)
(* wrappers, give the destination the name the source held and set the     *)
(* source's m_buffer to 0; in every reachable state no two live wrappers   *)
(* hold the same non-zero name; destroying a wrapper whose m_buffer is 0   *)
(* deletes nothing.                                                        *)
C29_MoveTransfersTheName ==
    /\ [](\A w, other \in constructed :
              (w # other /\ m_buffer[w] # 0) => m_buffer[w] # m_buffer[other])
    /\ [][\A w, other \in Wrappers :
              /\ (w # other /\ (\/ Buffer_MoveConstruct(w, other)
                                \/ Buffer_MoveAssign(w, other)))
                     => /\ m_buffer'[w] = m_buffer[other]
                        /\ m_buffer'[other] = 0
              /\ (Buffer_Destroy(w) /\ m_buffer[w] = 0)
                     => glDeleted' = glDeleted]_vars

\* two wrappers were constructed, the first was move-assigned from the
\* second, and the moved-from second was destroyed: nothing was deleted
C29_Witness ==
    /\ constructed = {<<"VertexBuffer", "a">>}
    /\ m_buffer[<<"VertexBuffer", "a">>] = 2
    /\ glNames = 2
    /\ \A n \in 1..glNames : glDeleted[n] = 0

----------------------------------------------------------------------------
(* C21: when the construction of a shader fails inside the construction of *)
(* the GuiRenderer, the WhirlError its caller catches has the message of   *)
(* the failing step as what() and as first entry of Get(), followed by one *)
(* line of context from each layer that caught and rethrew it, innermost   *)
(* first: the shader's (only for a compile or link failure, the only ones  *)
(* it catches), the renderer's, the facade's.                              *)
C21_ContextTrailInnermostFirst ==
    (shaderResult.op = "GuiRenderer" /\ ~shaderResult.ok) =>
        /\ shaderResult.error \in
               {"Failed to open shader file", "Unknown shader tag",
                "Unexpected shader tag", "Missing shader code",
                "Failed to compile shader", "Failed to link shader program"}
        /\ shaderResult.context =
               IF shaderResult.error \in {"Failed to compile shader",
                                          "Failed to link shader program"}
               THEN <<"Failed to construct shader",
                      "Failed to load renderer resources",
                      "Failed to create quad renderer">>
               ELSE <<"Failed to load renderer resources",
                      "Failed to create quad renderer">>
        /\ shaderResult.error = "Failed to compile shader" => shaderGl # <<>>
        /\ shaderResult.error = "Missing shader code" => shaderGl = <<>>

\* the fragment shader did not compile while the facade was constructed
C21_Witness ==
    /\ shaderResult.op = "GuiRenderer"
    /\ shaderResult.error = "Failed to compile shader"
    /\ Len(shaderResult.context) = 3
    /\ \E i \in DOMAIN shaderGl : shaderGl[i][1] = "CompileShader"
                                   /\ shaderGl[i][2] = "fragment"

----------------------------------------------------------------------------
(* C30: every call of SetBool, SetInt, SetUInt, SetFloat or SetMat4 asks   *)
(* glGetUniformLocation for the name once, first; when the answer is -1    *)
(* the setter returns false and uploads nothing, when it is a location the *)
(* setter uploads once, to that location, and returns true; in both cases  *)
(* nothing is thrown and m_program is what it was.                         *)
C30_SettersReportUnknownNames ==
    [][shaderResult'.op \in {"SetBool", "SetInt", "SetUInt", "SetFloat", "SetMat4"} =>
        LET uploads == {i \in DOMAIN shaderGl' :
                           shaderGl'[i][1] \in {"Uniform1i", "Uniform1ui",
                                                "Uniform1f", "UniformMatrix4fv"}}
            lookups == {i \in DOMAIN shaderGl' :
                           shaderGl'[i][1] = "GetUniformLocation"}
        IN  /\ lookups = {1}
            /\ shaderGl'[1][2] \in UniformNames
            /\ m_program' = m_program
            /\ shaderResult'.context = <<>>
            /\ \/ /\ ~shaderResult'.ok
                  /\ uploads = {}
                  /\ \E name \in UniformNames :
                         \/ Shader_SetBool(name, 1, -1)
                         \/ Shader_SetInt(name, -2, -1)
                         \/ Shader_SetUInt(name, 7, -1)
                         \/ Shader_SetFloat(name, 5, -1)
                         \/ Shader_SetMat4(name, Ortho(0, 4, 4, 0, -1, 1), -1)
               \/ /\ shaderResult'.ok
                  /\ uploads = {2}
                  /\ shaderGl'[2][2] \in Locations \ {-1}
                  /\ shaderResult'.error = ""]_vars

\* SetMat4 was called with a name the program does not have: it returned
\* false after the lookup alone
C30_Witness ==
    /\ shaderResult.op = "SetMat4"
    /\ ~shaderResult.ok
    /\ shaderGl = << <<"GetUniformLocation", "u_projection">> >>
    /\ m_program = 1

----------------------------------------------------------------------------
(* Reading the sources off a file as the format describes them *)

\* the section a line of the file falls in: that of the last vertex or
\* fragment tag before it, "none" before the first
ModeAt(file, i) ==
    LET before == {k \in 1..(i - 1) : file[k] \in {VertexTag, FragmentTag}}
    IN  IF before = {} THEN "none"
        ELSE file[CHOOSE k \in before : \A m \in before : m <= k][2]

\* the non-empty lines without a #shader tag that fall in the sections of a
\* kind, in file order
ExpectedSource(file, kind) ==
    LET idx == {i \in DOMAIN file :
                   /\ ModeAt(file, i) = kind
                   /\ file[i] # BlankLine
                   /\ file[i][1] # "#shader"}
    IN  [n \in 1..Cardinality(idx) |->
            file[CHOOSE i \in idx : Cardinality({k \in idx : k <= i}) = n]]

----------------------------------------------------------------------------
(* C27: a file whose first offending line carries a #shader tag of a kind  *)
(* other than vertex and fragment fails to load with the unknown-tag       *)
(* error, whatever section is being read; nothing of it reaches the        *)
(* compiler.                                                               *)
C27_UnknownTagAlwaysFails ==
    LET tags == TagsOf(shaderFile)
        j == FirstBadTag(tags)
    IN  (Scanned /\ j > 0 /\ tags[j] \notin {VertexTag, FragmentTag}) =>
            /\ ~shaderResult.ok
            /\ shaderResult.error = "Unknown shader tag"
            /\ shaderGl = <<>>

----------------------------------------------------------------------------
(* C28: the vertex source handed to the compiler is, in file order, the    *)
(* non-empty lines without a tag that were read in vertex mode, and the    *)
(* fragment source those read in fragment mode; blank lines, tag lines and *)
(* lines before the first tag are in neither, and no line is in both.      *)
C28_SourcesAreTheSectionLines ==
    \A c \in DOMAIN shaderGl :
        shaderGl[c][1] = "ShaderSource" =>
            shaderGl[c][3] = ExpectedSource(shaderFile, shaderGl[c][2])

----------------------------------------------------------------------------
(* Packed colors. A 32-bit word is held as its two 16-bit halves           *)
(* <<high, low>>, its unsigned value being high * 65536 + low: the         *)
(* operators below are those of C++ and GLSL on the 32 bits of an int or   *)
(* a uint, which agree bit for bit.                                        *)

\* the channel values tried: the ends of the range, the sign bit of a byte
\* and of the int a shifted byte becomes, and a value with mixed bits
Bytes == {0, 1, 127, 128, 255}

\* integral promotion of a uint8_t
Word(byte) == <<0, byte>>

RECURSIVE BitOr(_, _)
BitOr(x, y) ==
    IF x = 0 THEN y
    ELSE IF y = 0 THEN x
    ELSE (IF x % 2 = 1 \/ y % 2 = 1 THEN 1 ELSE 0) + 2 * BitOr(x \div 2, y \div 2)

RECURSIVE BitAnd(_, _)
BitAnd(x, y) ==
    IF x = 0 \/ y = 0 THEN 0
    ELSE (IF x % 2 = 1 /\ y % 2 = 1 THEN 1 ELSE 0) + 2 * BitAnd(x \div 2, y \div 2)

\* w << n on 32 bits: the bits shifted out at the top are lost
RECURSIVE ShiftLeft(_, _)
ShiftLeft(w, n) ==
    IF n = 0 THEN w
    ELSE ShiftLeft(<<(w[1] * 2 + w[2] \div 32768) % 65536, (w[2] * 2) % 65536>>,
                   n - 1)

\* w >> n of an unsigned word: zeros come in at the top
RECURSIVE ShiftRight(_, _)
ShiftRight(w, n) ==
    IF n = 0 THEN w
    ELSE ShiftRight(<<w[1] \div 2, (w[1] % 2) * 32768 + w[2] \div 2>>, n - 1)

\* w1 | w2
Or(w1, w2) == <<BitOr(w1[1], w2[1]), BitOr(w1[2], w2[2])>>

\* w1 & w2
And(w1, w2) == <<BitAnd(w1[1], w2[1]), BitAnd(w1[2], w2[2])>>

\* a packing with alpha in the top byte and red in the lowest
Color_New_AlphaFirst(r, g, b, a) ==
    Or(Or(Or(ShiftLeft(Word(a), 24), ShiftLeft(Word(b), 16)),
          ShiftLeft(Word(g), 8)),
       Word(r))

\* return (r << 24) | (g << 16) | (b << 8) | a;
Color_New(r, g, b, a) ==
    Or(Or(Or(ShiftLeft(Word(r), 24), ShiftLeft(Word(g), 16)),
          ShiftLeft(Word(b), 8)),
       Word(a))

\* (a_color >> n) & 0xFF, the value float(...) is applied to
Channel(a_color, n) == And(ShiftRight(a_color, n), <<0, 255>>)

ColorInit ==
    /\ channels \in Bytes \X Bytes \X Bytes \X Bytes
    /\ packed = <<>>
    /\ p_color = <<>>
    /\ NoRenderer
    /\ NoLayout
    /\ NoShader
    /\ NoBuffers
    /\ NoOpen
    /\ NoApp
    /\ NoLogger

\* the application packs the color
Color_Pack ==
    /\ packed = <<>>
    /\ packed' = Color_New(channels[1], channels[2], channels[3], channels[4])
    /\ UNCHANGED <<channels, p_color>>
    /\ UNCHANGED notColor

\* main() of the vertex shader reads the color back from a_color
Shader_Unpack ==
    /\ packed # <<>>
    /\ p_color = <<>>
    /\ p_color' = <<Channel(packed, 24), Channel(packed, 16),
                    Channel(packed, 8), Channel(packed, 0)>>
    /\ UNCHANGED <<channels, packed>>
    /\ UNCHANGED notColor

ColorNext ==
    \/ Color_Pack
    \/ Shader_Unpack

SpecColor == ColorInit /\ [][ColorNext]_vars

----------------------------------------------------------------------------
(* C22: for all bytes r, g, b, a the word Color::New returns has the       *)
(* unsigned value r * 2^24 + g * 2^16 + b * 2^8 + a, that is r * 2^8 + g   *)
(* in its high half and b * 2^8 + a in its low half, and the shader's      *)
(* (v >> 24) & 0xFF, (v >> 16) & 0xFF, (v >> 8) & 0xFF, v & 0xFF are       *)
(* r, g, b, a.                                                             *)
C22_PackedColorRoundTrip ==
    /\ packed # <<>> =>
           packed = <<channels[1] * 256 + channels[2],
                      channels[3] * 256 + channels[4]>>
    /\ p_color # <<>> =>
           p_color = <<Word(channels[1]), Word(channels[2]),
                       Word(channels[3]), Word(channels[4])>>

\* a color with the top bit of red set went through the shader
C22_Witness ==
    /\ channels = <<128, 1, 255, 127>>
    /\ packed = <<32769, 65407>>
    /\ p_color = <<<<0, 128>>, <<0, 1>>, <<0, 255>>, <<0, 127>>>>

----------------------------------------------------------------------------
(* The bounding box of a shape, as [x0, x1] x [y0, y1] *)
Box(kind, shape) ==
    IF kind = "circle"
    THEN [x0 |-> shape.x - shape.radius, x1 |-> shape.x + shape.radius,
          y0 |-> shape.y - shape.radius, y1 |-> shape.y + shape.radius]
    ELSE [x0 |-> shape.x, x1 |-> shape.x + shape.w,
          y0 |-> shape.y, y1 |-> shape.y + shape.h]

----------------------------------------------------------------------------
(* C31: for every shape kind the four vertices uploaded for a shape are    *)
(* the corners of its bounding box in the order (x0,y0), (x0,y1),          *)
(* (x1,y1), (x1,y0), the box being [x, x+w] x [y, y+h] for quads and       *)
(* rounded quads and [x-r, x+r] x [y-r, y+r] for circles, and each of the  *)
(* four carries the shape's color, and its radius where it has one.        *)
C31_VerticesAreTheBoxCorners ==
    [][Submit =>
        \A kind \in Kinds :
            \A shapes \in {Pending(kind)} :
            \A vertices \in {BufferAtDraw(gl', "VertexData", kind)} :
                shapes # <<>> =>
                    /\ Len(vertices) = 4 * Len(shapes)
                    /\ \A i \in DOMAIN shapes :
                           \A box \in {Box(kind, shapes[i])} :
                               /\ <<vertices[4 * i - 3].x, vertices[4 * i - 3].y>>
                                      = <<box.x0, box.y0>>
                               /\ <<vertices[4 * i - 2].x, vertices[4 * i - 2].y>>
                                      = <<box.x0, box.y1>>
                               /\ <<vertices[4 * i - 1].x, vertices[4 * i - 1].y>>
                                      = <<box.x1, box.y1>>
                               /\ <<vertices[4 * i].x, vertices[4 * i].y>>
                                      = <<box.x1, box.y0>>
                               /\ \A k \in (4 * i - 3)..(4 * i) :
                                      /\ vertices[k].color = shapes[i].color
                                      /\ kind # "quad" =>
                                             vertices[k].radius = shapes[i].radius]_vars

\* a frame drew a quad that is taller than wide: its second corner is
\* straight below the first
C31_Witness ==
    \E vertices \in {BufferAtDraw(gl, "VertexData", "quad")} :
        /\ Len(vertices) >= 4
        /\ vertices[2].x = vertices[1].x
        /\ vertices[2].y > vertices[1].y
        /\ vertices[4].x > vertices[1].x
        /\ vertices[4].x - vertices[1].x # vertices[2].y - vertices[1].y

----------------------------------------------------------------------------
(* C35: every projection GuiRenderer::Submit hands to a draw call was      *)
(* computed by an Adjust with width > 0 and height > 0: Submit never draws *)
(* with a projection no Adjust has set, also when the Adjust calls made so *)
(* far were all rejected.                                                  *)
C35_DrawsOnlyWithAnAdjustedProjection ==
    [][Submit =>
        ProjectionsUsed(gl') \subseteq
            {Ortho(0, width, height, 0, -1, 1) :
                width \in {w \in Widths : w > 0},
                height \in {h \in Heights : h > 0}}]_vars

----------------------------------------------------------------------------
(* The describe-attribute calls of a trace, in the order issued *)
DescribeCalls(trace) ==
    SelectSeq(trace, LAMBDA c : c[1] \in {"VertexAttribPointer", "VertexAttribIPointer"})

----------------------------------------------------------------------------
(* C32: the construction of a VertexArray from a layout of k attributes    *)
(* issues, for the slots 0 .. k-1 in this order, one describe-attribute    *)
(* call each (the integer-pointer form for INT and UINT, the float-pointer *)
(* form for FLOAT) with the stride of the layout and the offset of the     *)
(* slot, each followed at once by the enabling of the slot; Bind, Unbind   *)
(* and the Draw of the renderers issue no describe-attribute call.         *)
C32_OneDescribeCallPerAttribute ==
    /\ returned.fn = "VertexArray" =>
           \A trace \in {SubSeq(returned.gl, 5, Len(returned.gl) - 3)} :
               /\ Len(trace) = 2 * Len(attributes)
               /\ Len(DescribeCalls(returned.gl)) = Len(attributes)
               /\ \A i \in 0..(Len(attributes) - 1) :
                      /\ trace[2 * i + 1] =
                             <<IF attributes[i + 1].format \in {"INT", "UINT"}
                               THEN "VertexAttribIPointer"
                               ELSE "VertexAttribPointer",
                               i, attributes[i + 1].size, attributes[i + 1].format,
                               BytesBefore(attributes, Len(attributes)),
                               BytesBefore(attributes, i)>>
                      /\ trace[2 * i + 2] = <<"EnableVertexAttribArray", i>>
    /\ returned.fn \in {"Bind", "Unbind"} => DescribeCalls(returned.gl) = <<>>
    /\ \A p \in IndeterminateMat4 :
           /\ DescribeCalls(QuadRenderer_Draw(
                  <<[x |-> 0, y |-> 2, w |-> 2, h |-> 3, color |-> 7]>>, p).gl) = <<>>
           /\ DescribeCalls(Renderer_Draw("rquad", <<ValueInitializedRoundedQuad>>,
                                          p).gl) = <<>>
           /\ DescribeCalls(Renderer_Draw("circle", <<ValueInitializedCircle>>,
                                          p).gl) = <<>>

\* a vertex array was constructed from a layout of a FLOAT, a FLOAT and a
\* UINT attribute: the third slot is described in the integer form at
\* offset 16 with stride 20
C32_Witness ==
    /\ returned.fn = "VertexArray"
    /\ Len(attributes) = 3
    /\ returned.gl[9] = <<"VertexAttribIPointer", 2, 1, "UINT", 20, 16>>
    /\ returned.gl[10] = <<"EnableVertexAttribArray", 2>>

----------------------------------------------------------------------------
(* The GL context as the calls of a trace leave it. Objects are named by   *)
(* the renderer that owns them, "none" is object 0. The element buffer     *)
(* binding belongs to the vertex array bound at the time, and glBufferData *)
(* writes to the buffer bound to its target, whoever calls it.             *)

GlObjects == Kinds \cup {"none"}

\* nothing bound, nothing uploaded
GlIdle ==
    [vao |-> "none", array |-> "none",
     element |-> [a \in GlObjects |-> "none"],
     program |-> "none",
     data |-> [b \in GlObjects |-> <<>>],
     draws |-> <<>>, returns |-> <<>>]

GlStep(st, c) ==
    IF c[1] = "BindVertexArray" THEN [st EXCEPT !.vao = c[2]]
    ELSE IF c[1] = "UnbindVertexArray" THEN [st EXCEPT !.vao = "none"]
    ELSE IF c[1] = "BindVertexBuffer" THEN [st EXCEPT !.array = c[2]]
    ELSE IF c[1] = "UnbindVertexBuffer" THEN [st EXCEPT !.array = "none"]
    ELSE IF c[1] = "BindIndexBuffer" THEN [st EXCEPT !.element[st.vao] = c[2]]
    ELSE IF c[1] = "IndexData"
    THEN [st EXCEPT !.data[st.element[st.vao]] = c[3]]
    ELSE IF c[1] = "UseProgram" THEN [st EXCEPT !.program = c[2]]
    ELSE IF c[1] = "DrawElements"
    THEN [st EXCEPT !.draws =
              Append(@, [by |-> c[2], count |-> c[3], vao |-> st.vao,
                         element |-> st.element[st.vao],
                         indices |-> st.data[st.element[st.vao]],
                         program |-> st.program])]
    ELSE IF c[1] = "UnbindIndexBuffer"
    THEN [st EXCEPT !.element[st.vao] = "none",
                    !.returns = Append(@, [by |-> c[2], vao |-> st.vao,
                                           array |-> st.array,
                                           element |-> "none"])]
    ELSE st

RECURSIVE GlRun(_, _, _)
GlRun(trace, i, st) ==
    IF i > Len(trace) THEN st
    ELSE LET next == GlStep(st, trace[i])
         IN  IF next.vao \in GlObjects THEN GlRun(trace, i + 1, next) ELSE next

----------------------------------------------------------------------------
(* C34: when a shape renderer issues its indexed draw call, its own vertex *)
(* array is the bound vertex array, its own index buffer is the element    *)
(* buffer of that vertex array and holds the indices of the whole pending  *)
(* list, uploaded in this Draw, and its own program is the current         *)
(* program; when its Draw returns, the vertex array binding, the array     *)
(* buffer binding and the element buffer binding are 0.                    *)
C34_OwnObjectsBoundAtTheDrawCall ==
    [][Submit =>
        \A st \in {GlRun(gl', 1, GlIdle)} :
            /\ {st.draws[i].by : i \in DOMAIN st.draws}
                   = {kind \in Kinds : Pending(kind) # <<>>}
            /\ \A i \in DOMAIN st.draws :
                   \A d \in {st.draws[i]} :
                       /\ d.vao = d.by
                       /\ d.element = d.by
                       /\ d.program = d.by
                       /\ Len(d.indices) = 6 * Len(Pending(d.by))
                       /\ d.count = Len(d.indices)
                       /\ d.indices = BufferAtDraw(gl', "IndexData", d.by)
            /\ Len(st.returns) = Len(st.draws)
            /\ \A i \in DOMAIN st.returns :
                   /\ st.returns[i].by = st.draws[i].by
                   /\ st.returns[i].vao = "none"
                   /\ st.returns[i].array = "none"
                   /\ st.returns[i].element = "none"
            /\ \A kind \in Kinds :
                   Pending(kind) # <<>> => st.element[kind] = kind]_vars

\* a frame with a quad queued: the quad renderer and, after it, the two
\* renderers whose lists are never empty at the first frame drew, each with
\* its own objects
C34_Witness ==
    \E st \in {GlRun(gl, 1, GlIdle)} :
        /\ Len(st.draws) = 3
        /\ st.draws[1].by = "quad"
        /\ st.draws[1].element = "quad"
        /\ st.draws[1].count = 6
        /\ st.vao = "none"

----------------------------------------------------------------------------
(* C33: when the construction or the load of a shader fails in Compile or  *)
(* in Link, the program object and the two shader objects created in the   *)
(* attempt are deleted before the failure reaches the caller: every        *)
(* glCreateProgram and glCreateShader of the attempt has its glDelete.     *)
C33_FailedConstructionFreesItsObjects ==
    (/\ shaderResult.op \in {"Shader", "Load", "GuiRenderer"}
     /\ shaderResult.error \in {"Failed to compile shader",
                                "Failed to link shader program"}) =>
        /\ \A i \in DOMAIN shaderGl :
               shaderGl[i][1] = "CreateShader" =>
                   \E j \in DOMAIN shaderGl :
                       j > i /\ shaderGl[j] = <<"DeleteShader", shaderGl[i][2]>>
        /\ \A i \in DOMAIN shaderGl :
               shaderGl[i][1] = "CreateProgram" =>
                   \E j \in DOMAIN shaderGl :
                       j > i /\ shaderGl[j] = <<"DeleteProgram">>

----------------------------------------------------------------------------
(* The Renderer with Open, Close and Flush: src/unnamed/part_009           *)

\* quads the application keeps pending between two calls of Flush
MaxQuads == 2

\* what a call on the Renderer reports: the call, its return value and the
\* message it logs
Returned(op, value, message) == [op |-> op, value |-> value, log |-> message]

\* glGenVertexArrays ... glBindBuffer(GL_ARRAY_BUFFER, 0) of Open
OpenCalls ==
    << <<"GenVertexArrays", "quad">>, <<"GenBuffers", "quadVertexBuf">>,
       <<"GenBuffers", "quadIndexBuf">>, <<"BindVertexArray", "quad">>,
       <<"BindVertexBuffer", "quad">>,
       <<"VertexAttribPointer", 0, 2, "FLOAT">>, <<"EnableVertexAttribArray", 0>>,
       <<"VertexAttribIPointer", 1, 1, "UINT">>, <<"EnableVertexAttribArray", 1>>,
       <<"BindVertexArray", "none">>, <<"BindVertexBuffer", "none">> >>

\* loads: what m_quadShader.Load("assets/shaders/quad.wsh") returns
Renderer_Open(loads) ==
    /\ IF m_isOpen
       THEN /\ flushReturned' = Returned("Open", FALSE,
                                  "Tried to open a renderer that's already open")
            /\ flushGl' = <<>>
            /\ UNCHANGED m_isOpen
       ELSE IF ~loads
       THEN /\ flushReturned' = Returned("Open", FALSE,
                                  "Failed to load the quad shader")
            /\ flushGl' = << <<"Load", "assets/shaders/quad.wsh">> >>
            /\ UNCHANGED m_isOpen
       ELSE /\ flushReturned' = Returned("Open", TRUE,
                                  "Renderer opened successfully")
            /\ flushGl' = << <<"Load", "assets/shaders/quad.wsh">> >> \o OpenCalls
            /\ m_isOpen' = TRUE
    /\ UNCHANGED <<m_quadList, m_openProjection>>
    /\ UNCHANGED notOpen

Renderer_Close ==
    /\ IF ~m_isOpen
       THEN /\ flushReturned' = Returned("Close", FALSE,
                                  "Tried to close a renderer that's already closed")
            /\ flushGl' = <<>>
            /\ UNCHANGED <<m_isOpen, m_quadList>>
       ELSE /\ flushReturned' = Returned("Close", TRUE,
                                  "Renderer closed successfully")
            /\ flushGl' = << <<"DeleteVertexArrays", "quad">>,
                             <<"DeleteBuffers", "quadVertexBuf">>,
                             <<"DeleteBuffers", "quadIndexBuf">> >>
            /\ m_isOpen' = FALSE
            /\ m_quadList' = <<>>
    /\ UNCHANGED m_openProjection
    /\ UNCHANGED notOpen

\* the calls of an open Flush; projection is the value m_projection is read as
FlushCalls(quads, projection) ==
    LET built == QuadLoop(quads, 0, <<>>, <<>>)
    IN  << <<"BindVertexArray", "quad">> >>
        \o Upload("quad", built.vertices, built.indices)
        \o << <<"SetMat4", "u_Projection", projection>>,
              <<"UseProgram", "quad">>,
              <<"DrawElements", Len(built.indices)>>,
              <<"BindVertexArray", "none">>,
              <<"BindVertexBuffer", "none">>,
              <<"BindIndexBuffer", "none">> >>

\* a Flush that does not look at m_isOpen
Renderer_Flush_NoOpenCheck ==
    /\ \E projection \in (IF m_openProjection = [indeterminate |-> 0]
                          THEN IndeterminateMat4 ELSE {m_openProjection}) :
          flushGl' = FlushCalls(m_quadList, projection)
    /\ flushReturned' = Returned("Flush", TRUE, "")
    /\ m_quadList' = <<>>
    /\ UNCHANGED <<m_isOpen, m_openProjection>>
    /\ UNCHANGED notOpen

Renderer_Flush ==
    /\ IF ~m_isOpen
       THEN /\ flushReturned' = Returned("Flush", FALSE,
                                  "Tried to flush a closed renderer")
            /\ flushGl' = <<>>
            /\ UNCHANGED m_quadList
       ELSE /\ \E projection \in (IF m_openProjection = [indeterminate |-> 0]
                                  THEN IndeterminateMat4 ELSE {m_openProjection}) :
                  flushGl' = FlushCalls(m_quadList, projection)
            /\ flushReturned' = Returned("Flush", TRUE, "")
            /\ m_quadList' = <<>>
    /\ UNCHANGED <<m_isOpen, m_openProjection>>
    /\ UNCHANGED notOpen

\* the vector grows by itself while size() < capacity(), which Open reserves
\* as 64: within MaxQuads the reserve branch is not taken
Renderer_DrawQuad(x, y, w, h, color) ==
    /\ Len(m_quadList) < MaxQuads
    /\ IF ~m_isOpen
       THEN /\ flushReturned' = Returned("DrawQuad", "void",
                                  "Tried to draw a quad with a closed renderer")
            /\ UNCHANGED m_quadList
       ELSE IF x < 0 \/ y < 0
       THEN /\ flushReturned' = Returned("DrawQuad", "void",
                                  "Invalid quad coordinates")
            /\ UNCHANGED m_quadList
       ELSE IF w <= 0 \/ h <= 0
       THEN /\ flushReturned' = Returned("DrawQuad", "void",
                                  "Invalid quad dimensions")
            /\ UNCHANGED m_quadList
       ELSE /\ flushReturned' = Returned("DrawQuad", "void", "")
            /\ m_quadList' = Append(m_quadList,
                                [x |-> x, y |-> y, w |-> w, h |-> h, color |-> color])
    /\ flushGl' = <<>>
    /\ UNCHANGED <<m_isOpen, m_openProjection>>
    /\ UNCHANGED notOpen

Renderer_DrawVLine(x, y, length, thickness, color) ==
    Renderer_DrawQuad(x, y, thickness, length, color)

Renderer_DrawHLine(x, y, length, thickness, color) ==
    Renderer_DrawQuad(x, y, length, thickness, color)

Renderer_Adjust(width, height) ==
    /\ IF width <= 0 \/ height <= 0
       THEN /\ flushReturned' = Returned("Adjust", "void", "Invalid viewport data")
            /\ UNCHANGED m_openProjection
       ELSE /\ flushReturned' = Returned("Adjust", "void", "Adjusting renderer")
            /\ m_openProjection' = Ortho(0, width, height, 0, -1, 1)
    /\ flushGl' = <<>>
    /\ UNCHANGED <<m_isOpen, m_quadList>>
    /\ UNCHANGED notOpen

OpenInit ==
    /\ NoRenderer
    /\ NoLayout
    /\ NoShader
    /\ NoBuffers
    /\ NoColor
    /\ NoOpen
    /\ NoApp
    /\ NoLogger

OpenNext ==
    \/ \E loads \in BOOLEAN : Renderer_Open(loads)
    \/ Renderer_Close
    \/ Renderer_Flush
    \/ \E q \in Quads : Renderer_DrawQuad(q.x, q.y, q.w, q.h, q.color)
    \/ \E l \in Lines : Renderer_DrawVLine(l.x, l.y, l.length, l.thickness, l.color)
    \/ \E l \in Lines : Renderer_DrawHLine(l.x, l.y, l.length, l.thickness, l.color)
    \/ \E width \in Widths, height \in Heights : Renderer_Adjust(width, height)

SpecOpen == OpenInit /\ [][OpenNext]_vars

(* C36: whenever the Renderer is not open its pending quad list is empty,   *)
(* and DrawQuad and Flush change neither m_isOpen nor the list nor the      *)
(* projection and issue no GL call (Flush returns false); Open on an open   *)
(* Renderer and Close on a closed one return false and change none of      *)
(* these; an Open whose shader load fails leaves the Renderer closed.       *)
C36_ClosedRendererIsInert ==
    [][/\ ~m_isOpen => m_quadList = <<>>
       /\ ~m_isOpen' => m_quadList' = <<>>
       /\ (~m_isOpen /\ flushReturned'.op \in {"DrawQuad", "Flush"})
              => /\ UNCHANGED <<m_isOpen, m_quadList, m_openProjection>>
                 /\ flushGl' = <<>>
                 /\ flushReturned'.op = "Flush" => flushReturned'.value = FALSE
       /\ (m_isOpen /\ flushReturned'.op = "Open")
              => /\ flushReturned'.value = FALSE
                 /\ UNCHANGED <<m_isOpen, m_quadList, m_openProjection>>
       /\ (~m_isOpen /\ flushReturned'.op = "Close")
              => /\ flushReturned'.value = FALSE
                 /\ UNCHANGED <<m_isOpen, m_quadList, m_openProjection>>
       /\ (flushReturned'.op = "Open"
           /\ flushReturned'.log = "Failed to load the quad shader")
              => ~m_isOpen']_vars

\* a closed Renderer whose projection had been adjusted refused a Flush
C36_Witness ==
    /\ ~m_isOpen
    /\ flushReturned.op = "Flush"
    /\ flushReturned.value = FALSE
    /\ flushGl = <<>>
    /\ m_openProjection # [indeterminate |-> 0]

----------------------------------------------------------------------------
(* GuiApplication::Launch: src/src/GuiApplication.cpp                      *)

\* rounds of the loop before the window is asked to close
MaxFrames == 3

\* VideoMode the application is constructed with: width and height
VideoModes == {<<800, 600>>, <<200, 100>>}

\* framebuffer sizes GLFW reports to the callback; <<0, 0>> for a minimised
\* window
FramebufferSizes == {<<0, 0>>, <<200, 100>>, <<400, 300>>}

\* what std::make_unique<Renderer>() does: returns, or Renderer::Renderer
\* throws the std::runtime_error of its own catch block
RendererOutcomes == {"constructed", "runtime_error"}

Call(name) == <<name>>

\* glfwSetErrorCallback; if (!glfwInit()) return 1; three glfwWindowHint
Launch_glfwInit(ok) ==
    /\ pc = "idle"
    /\ IF ~ok
       THEN /\ launchCalls' = launchCalls
                \o << Call("glfwSetErrorCallback"), <<"glfwInit", FALSE>> >>
            /\ pc' = "return 1"
       ELSE /\ launchCalls' = launchCalls
                \o << Call("glfwSetErrorCallback"), <<"glfwInit", TRUE>>,
                      Call("glfwWindowHint"), Call("glfwWindowHint"),
                      Call("glfwWindowHint") >>
            /\ pc' = "glfwCreateWindow"
    /\ UNCHANGED <<m_mode, m_window, frames>>
    /\ UNCHANGED notApp

\* m_window = glfwCreateWindow(...); window is what it returns, 0 for nullptr
Launch_glfwCreateWindow(window) ==
    /\ pc = "glfwCreateWindow"
    /\ m_window' = window
    /\ IF window = 0
       THEN /\ launchCalls' = launchCalls
                \o << <<"glfwCreateWindow", m_mode[1], m_mode[2]>>,
                      Call("glfwTerminate") >>
            /\ pc' = "return 1"
       ELSE /\ launchCalls' = launchCalls
                \o << <<"glfwCreateWindow", m_mode[1], m_mode[2]>>,
                      Call("glfwSetWindowSizeLimits"),
                      Call("glfwMakeContextCurrent") >>
            /\ pc' = "gladLoadGL"
    /\ UNCHANGED <<m_mode, frames>>
    /\ UNCHANGED notApp

Launch_gladLoadGL(ok) ==
    /\ pc = "gladLoadGL"
    /\ IF ~ok
       THEN /\ launchCalls' = launchCalls
                \o << Call("gladLoadGL"), Call("glfwDestroyWindow"),
                      Call("glfwTerminate") >>
            /\ pc' = "return 1"
       ELSE /\ launchCalls' = launchCalls
                \o << Call("gladLoadGL"), Call("glfwSetWindowUserPointer") >>
            /\ pc' = "make_unique"
    /\ UNCHANGED <<m_mode, m_window, frames>>
    /\ UNCHANGED notApp

\* try { m_renderer = std::make_unique<Renderer>(); } catch (const
\* std::runtime_error&) { ...; return 1; }, then glViewport, the framebuffer
\* size callback and m_renderer->Adjust(m_mode.width, m_mode.height)
Launch_make_unique(outcome) ==
    /\ pc = "make_unique"
    /\ IF outcome = "runtime_error"
       THEN /\ launchCalls' = Append(launchCalls, <<"Renderer", outcome>>)
            /\ pc' = "return 1"
       ELSE /\ launchCalls' = launchCalls
                \o << <<"Renderer", outcome>>,
                      <<"glViewport", m_mode[1], m_mode[2]>>,
                      Call("glfwSetFramebufferSizeCallback"),
                      <<"Adjust", m_mode[1], m_mode[2]>> >>
            /\ pc' = "while"
    /\ UNCHANGED <<m_mode, m_window, frames>>
    /\ UNCHANGED notApp

\* one round of the loop; glfwPollEvents runs the framebuffer size callback
\* with size, or runs no callback when resized is false
Launch_Frame(resized, size) ==
    /\ pc = "while"
    /\ frames < MaxFrames
    /\ frames' = frames + 1
    /\ IF resized
       THEN /\ launchCalls' = launchCalls
                \o << Call("glfwWindowShouldClose"), Call("glClear"),
                      Call("glfwSwapBuffers"), Call("glfwPollEvents"),
                      <<"glViewport", size[1], size[2]>>,
                      <<"Adjust", size[1], size[2]>> >>
            /\ m_mode' = size
       ELSE /\ launchCalls' = launchCalls
                \o << Call("glfwWindowShouldClose"), Call("glClear"),
                      Call("glfwSwapBuffers"), Call("glfwPollEvents") >>
            /\ UNCHANGED m_mode
    /\ UNCHANGED <<pc, m_window>>
    /\ UNCHANGED notApp

\* glfwWindowShouldClose(m_window) is true: glfwDestroyWindow, glfwTerminate,
\* return 0
Launch_Close ==
    /\ pc = "while"
    /\ launchCalls' = launchCalls
        \o << Call("glfwWindowShouldClose"), Call("glfwDestroyWindow"),
              Call("glfwTerminate") >>
    /\ pc' = "return 0"
    /\ UNCHANGED <<m_mode, m_window, frames>>
    /\ UNCHANGED notApp

\* GuiApplication::GuiApplication(mode): m_mode(mode), m_window(nullptr)
AppInit ==
    /\ NoRenderer
    /\ NoLayout
    /\ NoShader
    /\ NoBuffers
    /\ NoColor
    /\ NoOpen
    /\ NoLogger
    /\ pc = "idle"
    /\ m_mode \in VideoModes
    /\ m_window = 0
    /\ launchCalls = <<>>
    /\ frames = 0

AppNext ==
    \/ \E ok \in BOOLEAN : Launch_glfwInit(ok)
    \/ \E window \in {0, 1} : Launch_glfwCreateWindow(window)
    \/ \E ok \in BOOLEAN : Launch_gladLoadGL(ok)
    \/ \E outcome \in RendererOutcomes : Launch_make_unique(outcome)
    \/ \E resized \in BOOLEAN, size \in FramebufferSizes : Launch_Frame(resized, size)
    \/ Launch_Close

SpecApp == AppInit /\ [][AppNext]_vars

\* positions in trace at which name was called
Positions(trace, name) == {i \in 1..Len(trace) : trace[i][1] = name}

(* C37: when Launch has returned after glfwInit succeeded, glfwTerminate    *)
(* has been called exactly once, and a window that was created has been     *)
(* destroyed before that call.                                              *)
C37_EveryReturnTerminatesOnce ==
    (/\ pc \in {"return 0", "return 1"}
     /\ \E i \in Positions(launchCalls, "glfwInit") : launchCalls[i][2])
        => /\ Cardinality(Positions(launchCalls, "glfwTerminate")) = 1
           /\ m_window # 0
                => \E d \in Positions(launchCalls, "glfwDestroyWindow") :
                     \A t \in Positions(launchCalls, "glfwTerminate") : d < t

----------------------------------------------------------------------------
(* The Logger: src/include/GuiApplication.hpp                              *)

\* enum class Level
OFF == 0
TRACE == 1
DEBUG == 2
INFO == 3
WARN == 4
ERROR == 5
FATAL == 6

Levels == {OFF, TRACE, DEBUG, INFO, WARN, ERROR, FATAL}

\* values SetLevel is called with: the enumerators, and the values on either
\* side of them that a static_cast<Level> can produce
LevelValues == Levels \cup {OFF - 1, FATAL + 1}

\* Logger::Log on the logger st = [level, out]: out grows by the level of
\* the message and the stream it is written to
Log(st, level) ==
    IF level = OFF \/ st.level > level
    THEN st
    ELSE IF level >= ERROR
    THEN [st EXCEPT !.out = Append(@, <<level, "cerr">>)]
    ELSE [st EXCEPT !.out = Append(@, <<level, "cout">>)]

RECURSIVE SetLevel(_, _)

\* temp = GetLevel(); SetLevel(level); Log(level, ...); SetLevel(temp)
Force(st, level) ==
    LET temp == st.level
    IN  SetLevel(Log(SetLevel(st, level), level), temp)

SetLevel(st, level) ==
    IF level < OFF \/ level > FATAL
    THEN Force(st, ERROR)
    ELSE [st EXCEPT !.level = level]

\* the singleton before a call
Logger == [level |-> m_level, out |-> <<>>]

\* WHIRL_LOG(level, ...), and WHIRL_TRACE ... WHIRL_FATAL, which are Log
\* with their own level
Logger_Log(level) ==
    /\ \E st \in {Log(Logger, level)} :
        /\ m_level' = st.level
        /\ emitted' = st.out
    /\ loggerCall' = <<"Log", level>>
    /\ UNCHANGED notLogger

Logger_Force(level) ==
    /\ \E st \in {Force(Logger, level)} :
        /\ m_level' = st.level
        /\ emitted' = st.out
    /\ loggerCall' = <<"Force", level>>
    /\ UNCHANGED notLogger

Logger_SetLevel(level) ==
    /\ \E st \in {SetLevel(Logger, level)} :
        /\ m_level' = st.level
        /\ emitted' = st.out
    /\ loggerCall' = <<"SetLevel", level>>
    /\ UNCHANGED notLogger

\* static Logger instance(Level::TRACE)
LoggerInit ==
    /\ NoRenderer
    /\ NoLayout
    /\ NoShader
    /\ NoBuffers
    /\ NoColor
    /\ NoOpen
    /\ NoApp
    /\ m_level = TRACE
    /\ emitted = <<>>
    /\ loggerCall = <<"none">>

LoggerNext ==
    \/ \E level \in Levels : Logger_Log(level)
    \/ \E level \in Levels : Logger_Force(level)
    \/ \E level \in LevelValues : Logger_SetLevel(level)

SpecLogger == LoggerInit /\ [][LoggerNext]_vars

(* C38: a call of Log writes a message only if the message's level is not   *)
(* OFF and is at or above the configured level, and writes nothing when    *)
(* the configured level is OFF.                                             *)
C38_LogFiltersAndOffSilences ==
    loggerCall[1] = "Log"
        => /\ emitted # <<>> => (loggerCall[2] # OFF /\ loggerCall[2] >= m_level)
           /\ m_level = OFF => emitted = <<>>

====
